---- MODULE Spec2Model ----
(***************************************************************************)
(* A model of ush, the ultrasonic shell: the message schema and its CRC,   *)
(* the frame encoder, the streaming frame decoder (src/src/protocol.rs)    *)
(* and the BFSK modem (src/src/modulation.rs).                             *)
(*                                                                         *)
(* Bytes are the integers 0..255 and byte strings are sequences of them.   *)
(* A u32 is kept as its four bytes, most significant first, so that no     *)
(* value leaves the range of the model checker's integers and 32-bit       *)
(* arithmetic keeps its width; a u64 is kept as eight bytes.               *)
(***************************************************************************)
EXTENDS Integers, Sequences, FiniteSets, TLC

Byte == 0..255

\* ------------------------------------------------------------------------
\* Sequence helpers
\* ------------------------------------------------------------------------

\* TLC hands an operator its arguments unevaluated. Strict(x, e) is e, with x
\* evaluated first: a running value is then computed step by step instead of
\* piling up as a nest of pending computations.
Strict(x, e) == IF x = x THEN e ELSE e

\* s[a..b] as a Rust slice s[a-1..b] (1-based, inclusive; empty when b < a).
Slice(s, a, b) == IF b < a THEN <<>> ELSE SubSeq(s, a, b)

\* buffer.drain(..n): the buffer without its first n bytes.
Drain(s, n) == IF n >= Len(s) THEN <<>> ELSE SubSeq(s, n + 1, Len(s))

\* n copies of the byte b.
Repeat(b, n) == [i \in 1..n |-> b]

\* The concatenation item(lo) \o ... \o item(hi), split in halves so that
\* the evaluation nests only logarithmically deep.
RECURSIVE ConcatRange(_, _, _)
ConcatRange(item(_), lo, hi) ==
    IF lo > hi THEN <<>>
    ELSE IF lo = hi THEN item(lo)
    ELSE LET mid == (lo + hi) \div 2
         IN  ConcatRange(item, lo, mid) \o ConcatRange(item, mid + 1, hi)

\* ------------------------------------------------------------------------
\* Fixed-width unsigned integers as big-endian byte strings
\* ------------------------------------------------------------------------

U32Zero == <<0, 0, 0, 0>>

\* The big-endian bytes of the small integer n in a field of w bytes.
RECURSIVE ToBytes(_, _)
ToBytes(n, w) == IF w = 0 THEN <<>> ELSE ToBytes(n \div 256, w - 1) \o <<n % 256>>

\* A faulty increment, which sticks at the largest value instead of wrapping:
\* the sequence properties must tell it from wrapping_add.
SaturatingInc(b) ==
    IF \A i \in 1..Len(b) : b[i] = 255 THEN b
    ELSE LET k == CHOOSE j \in 1..Len(b) :
                      b[j] < 255 /\ \A i \in (j + 1)..Len(b) : b[i] = 255
         IN  [i \in 1..Len(b) |-> IF i < k THEN b[i] ELSE IF i = k THEN b[k] + 1 ELSE 0]

\* wrapping_add(1) on a big-endian byte string: the carry out of the most
\* significant byte is dropped.
RECURSIVE WrappingInc(_)
WrappingInc(b) ==
    IF b = <<>> THEN <<>>
    ELSE LET n == Len(b)
         IN  IF b[n] < 255 THEN [b EXCEPT ![n] = b[n] + 1]
             ELSE WrappingInc(SubSeq(b, 1, n - 1)) \o <<0>>

\* b without its leading zero bytes (the empty string is zero).
RECURSIVE StripZeros(_)
StripZeros(b) == IF b # <<>> /\ b[1] = 0 THEN StripZeros(Tail(b)) ELSE b

\* One step of the long division of a big-endian byte string by ten:
\* <<quotient bytes, remainder>>, the carry r coming in from the left.
RECURSIVE DivTen(_, _)
DivTen(b, r) ==
    IF b = <<>> THEN <<(<<>>), r>>
    ELSE LET cur  == r * 256 + b[1]
             rest == DivTen(Tail(b), cur % 10)
         IN  <<(<<cur \div 10>>) \o rest[1], rest[2]>>

\* The decimal digits (as ASCII bytes) of a big-endian byte string, without
\* leading zeros, as itoa writes an unsigned integer.
RECURSIVE DecimalOfBytes(_)
DecimalOfBytes(b) ==
    LET s == StripZeros(b)
    IN  IF s = <<>> THEN <<48>>
        ELSE LET d == DivTen(s, 0)
             IN  IF StripZeros(d[1]) = <<>> THEN <<48 + d[2]>>
                 ELSE DecimalOfBytes(d[1]) \o <<48 + d[2]>>

\* The decimal digits of a small natural number.
RECURSIVE DecimalOfNat(_)
DecimalOfNat(n) ==
    IF n < 10 THEN <<48 + n>> ELSE DecimalOfNat(n \div 10) \o <<48 + (n % 10)>>

\* b * 10 + d on a big-endian byte string of fixed width: <<bytes, carry>>,
\* a non-zero carry meaning the value no longer fits the width.
RECURSIVE MulTenAdd(_, _)
MulTenAdd(b, d) ==
    IF b = <<>> THEN <<(<<>>), d>>
    ELSE LET n    == Len(b)
             cur  == b[n] * 10 + d
             rest == MulTenAdd(SubSeq(b, 1, n - 1), cur \div 256)
         IN  <<rest[1] \o <<cur % 256>>, rest[2]>>

\* ------------------------------------------------------------------------
\* CRC-32/ISO-HDLC (crc crate, CRC_32_ISO_HDLC): reflected polynomial
\* 0xEDB88320, initial value 0xFFFFFFFF, final xor 0xFFFFFFFF.
\* ------------------------------------------------------------------------

RECURSIVE XorBits(_, _, _)
XorBits(a, b, n) ==
    IF n = 0 THEN 0
    ELSE ((a + b) % 2) + 2 * XorBits(a \div 2, b \div 2, n - 1)

\* The exclusive or of two 4-bit values, tabulated.
XorNibble == [a \in 0..15 |-> [b \in 0..15 |-> XorBits(a, b, 4)]]

\* The exclusive or of two bytes, tabulated from the nibbles.
XorByte ==
    [a \in Byte |-> [b \in Byte |->
        16 * XorNibble[a \div 16][b \div 16] + XorNibble[a % 16][b % 16]]]

Xor8(a, b) == XorByte[a][b]

Xor32(x, y) ==
    <<Xor8(x[1], y[1]), Xor8(x[2], y[2]), Xor8(x[3], y[3]), Xor8(x[4], y[4])>>

CrcPoly == <<237, 184, 131, 32>>
CrcInit == <<255, 255, 255, 255>>
CrcXorOut == <<255, 255, 255, 255>>

\* x >> 1 on a u32.
ShiftRight1(x) ==
    <<x[1] \div 2,
      (x[2] \div 2) + 128 * (x[1] % 2),
      (x[3] \div 2) + 128 * (x[2] % 2),
      (x[4] \div 2) + 128 * (x[3] % 2)>>

\* One bit of the reflected division: shift, and subtract the polynomial
\* when the bit shifted out is set.
CrcBitStep(x) ==
    IF x[4] % 2 = 1 THEN Xor32(ShiftRight1(x), CrcPoly) ELSE ShiftRight1(x)

RECURSIVE CrcBits(_, _)
CrcBits(x, n) == IF n = 0 THEN x ELSE CrcBits(CrcBitStep(x), n - 1)

\* The table of the byte-wise algorithm: entry i is i advanced by eight bits.
CrcTable == [i \in 0..255 |-> CrcBits(<<0, 0, 0, i>>, 8)]

\* digest.update for one byte: crc = table[(crc ^ byte) & 0xFF] ^ (crc >> 8).
CrcUpdateByte(crc, byte) ==
    Xor32(CrcTable[Xor8(crc[4], byte)], <<0, crc[1], crc[2], crc[3]>>)

\* digest.update for the bytes data[lo..hi], in order.
RECURSIVE CrcUpdateRange(_, _, _, _)
CrcUpdateRange(crc, data, lo, hi) ==
    Strict(crc,
        IF lo > hi THEN crc
        ELSE IF lo = hi THEN CrcUpdateByte(crc, data[lo])
        ELSE LET mid == (lo + hi) \div 2
             IN  CrcUpdateRange(CrcUpdateRange(crc, data, lo, mid), data, mid + 1, hi))

CrcUpdate(crc, data) == CrcUpdateRange(crc, data, 1, Len(data))

CrcFinalize(crc) == Xor32(crc, CrcXorOut)

\* ------------------------------------------------------------------------
\* The message schema (protocol.rs, lines 7-35)
\* ------------------------------------------------------------------------

PROTOCOL_VERSION == 1
PREAMBLE == <<170, 170, 170, 170>>
START_DELIMITER == <<126, 126>>
END_DELIMITER == <<126, 126>>
MAX_MESSAGE_LENGTH == 1024

MessageType == {"Text", "File", "Ack", "Ping"}

\* The name serde writes for a unit variant of MessageType, in ASCII.
VariantName(t) ==
    CASE t = "Text" -> <<84, 101, 120, 116>>
      [] t = "File" -> <<70, 105, 108, 101>>
      [] t = "Ack"  -> <<65, 99, 107>>
      [] t = "Ping" -> <<80, 105, 110, 103>>

\* The names serde derives for the fields of MessageHeader and Message.
FieldVersion == <<118, 101, 114, 115, 105, 111, 110>>
FieldMessageType ==
    <<109, 101, 115, 115, 97, 103, 101, 95, 116, 121, 112, 101>>
FieldSequenceNumber ==
    <<115, 101, 113, 117, 101, 110, 99, 101, 95, 110, 117, 109, 98, 101, 114>>
FieldTimestamp == <<116, 105, 109, 101, 115, 116, 97, 109, 112>>
FieldPayloadLength ==
    <<112, 97, 121, 108, 111, 97, 100, 95, 108, 101, 110, 103, 116, 104>>
FieldHeader == <<104, 101, 97, 100, 101, 114>>
FieldPayload == <<112, 97, 121, 108, 111, 97, 100>>
FieldChecksum == <<99, 104, 101, 99, 107, 115, 117, 109>>

MessageHeader(version, message_type, sequence_number, timestamp, payload_length) ==
    [version |-> version, message_type |-> message_type,
     sequence_number |-> sequence_number, timestamp |-> timestamp,
     payload_length |-> payload_length]

Message(header, payload, checksum) ==
    [header |-> header, payload |-> payload, checksum |-> checksum]

\* ------------------------------------------------------------------------
\* serde_json::to_vec: the compact JSON text of a header and of a message
\* ------------------------------------------------------------------------

\* "name": for a field name that needs no escaping
JsonKey(name) == <<34>> \o name \o <<34, 58>>

\* serde_json::to_vec(header): the fields in declaration order.
SerializeHeader(h) ==
    <<123>> \o JsonKey(FieldVersion) \o DecimalOfNat(h.version)
    \o <<44>> \o JsonKey(FieldMessageType)
        \o <<34>> \o VariantName(h.message_type) \o <<34>>
    \o <<44>> \o JsonKey(FieldSequenceNumber) \o DecimalOfBytes(h.sequence_number)
    \o <<44>> \o JsonKey(FieldTimestamp) \o DecimalOfBytes(h.timestamp)
    \o <<44>> \o JsonKey(FieldPayloadLength) \o DecimalOfNat(h.payload_length)
    \o <<125>>

\* A Vec<u8> is written as an array of numbers: [84,101,115,116].
SerializeByteArray(bytes) ==
    LET item(i) == (IF i > 1 THEN <<44>> ELSE <<>>) \o DecimalOfNat(bytes[i])
    IN  <<91>> \o ConcatRange(item, 1, Len(bytes)) \o <<93>>

\* serde_json::to_vec(message)
SerializeMessage(m) ==
    <<123>> \o JsonKey(FieldHeader) \o SerializeHeader(m.header)
    \o <<44>> \o JsonKey(FieldPayload) \o SerializeByteArray(m.payload)
    \o <<44>> \o JsonKey(FieldChecksum) \o DecimalOfBytes(m.checksum)
    \o <<125>>

\* ------------------------------------------------------------------------
\* Message: the checksum and the factories (protocol.rs, lines 37-149)
\* ------------------------------------------------------------------------

\* A faulty checksum, which leaves the header out: the soundness of the
\* checksum must tell it from calculate_checksum.
ChecksumOfPayloadOnly(header, payload) ==
    CrcFinalize(CrcUpdate(CrcInit, payload))

\* Message::calculate_checksum: the CRC of the serialized header followed
\* by the raw payload.
calculate_checksum(header, payload) ==
    CrcFinalize(CrcUpdate(CrcUpdate(CrcInit, SerializeHeader(header)), payload))

\* A faulty verify_checksum: one that accepts every message.
VerifiesAlways(m) == m.checksum = m.checksum

\* Message::verify_checksum
verify_checksum(m) == calculate_checksum(m.header, m.payload) = m.checksum

\* A result: Ok(value) or Err(kind).
Ok(v) == [ok |-> TRUE, val |-> v]
Err(kind) == [ok |-> FALSE, err |-> kind]

\* A faulty new_text, which already refuses a text of MAX_MESSAGE_LENGTH
\* bytes: the length rule must tell it from new_text.
NewTextRefusingLongest(text, sequence_number, now) ==
    IF Len(text) >= MAX_MESSAGE_LENGTH THEN [ok |-> FALSE, err |-> "Protocol"]
    ELSE LET header == MessageHeader(PROTOCOL_VERSION, "Text", sequence_number,
                                     now, Len(text) % 65536)
             crc    == CrcFinalize(CrcUpdate(CrcUpdate(CrcInit,
                                      SerializeHeader(header)), text))
         IN  [ok |-> TRUE, val |-> Message(header, text, crc)]

\* Message::new_text(text, sequence_number), the wall clock reading `now`
\* seconds. text is given by its UTF-8 bytes.
new_text(text, sequence_number, now) ==
    IF Len(text) > MAX_MESSAGE_LENGTH THEN Err("Protocol")
    ELSE LET header == MessageHeader(PROTOCOL_VERSION, "Text", sequence_number,
                                     now, Len(text) % 65536)
         IN  Ok(Message(header, text, calculate_checksum(header, text)))

\* Message::new_ack(sequence_number)
new_ack(sequence_number, now) ==
    LET header == MessageHeader(PROTOCOL_VERSION, "Ack", sequence_number, now, 0)
    IN  Ok(Message(header, <<>>, calculate_checksum(header, <<>>)))

\* Message::new_ping(sequence_number): the payload is b"ping".
new_ping(sequence_number, now) ==
    LET payload == <<112, 105, 110, 103>>
        header  == MessageHeader(PROTOCOL_VERSION, "Ping", sequence_number, now,
                                 Len(payload) % 65536)
    IN  Ok(Message(header, payload, calculate_checksum(header, payload)))

\* ------------------------------------------------------------------------
\* ProtocolEncoder (protocol.rs, lines 151-201)
\* ------------------------------------------------------------------------

\* ProtocolEncoder::new
ProtocolEncoder_new == [sequence_counter |-> U32Zero]

\* A faulty encode_message, which writes the preamble once: the frame
\* layout must tell it from encode_message.
EncodeMessageSinglePreamble(message) ==
    Ok(PREAMBLE \o START_DELIMITER
       \o ToBytes(Len(SerializeMessage(message)) % 65536, 2)
       \o SerializeMessage(message) \o END_DELIMITER)

\* ProtocolEncoder::encode_message: the frame of a message. The length
\* field is message_bytes.len() as u16, which keeps the low 16 bits. The
\* serialization of a Message cannot fail, so the result is always Ok; the
\* encoder itself is not touched.
encode_message(message) ==
    LET message_bytes == SerializeMessage(message)
        length        == Len(message_bytes) % 65536
    IN  Ok(PREAMBLE \o PREAMBLE \o START_DELIMITER \o ToBytes(length, 2)
           \o message_bytes \o END_DELIMITER)

\* A faulty encode_text, which takes the sequence number before it knows
\* that the text is accepted: a refused text would use one up.
EncodeTextCountingFirst(enc, text, now) ==
    LET message == new_text(text, enc.sequence_counter, now)
    IN  [enc    |-> [enc EXCEPT !.sequence_counter = WrappingInc(@)],
         result |-> IF message.ok THEN encode_message(message.val) ELSE message]

\* ProtocolEncoder::encode_text: the encoder after the call and the result.
\* A text that new_text refuses returns early, before the counter moves.
encode_text(enc, text, now) ==
    LET message == new_text(text, enc.sequence_counter, now)
    IN  IF ~message.ok THEN [enc |-> enc, result |-> message]
        ELSE [enc    |-> [enc EXCEPT !.sequence_counter = WrappingInc(@)],
              result |-> encode_message(message.val)]

\* ProtocolEncoder::get_next_sequence_number
get_next_sequence_number(enc) == enc.sequence_counter

\* ------------------------------------------------------------------------
\* String::from_utf8: whether a byte string is well-formed UTF-8
\* ------------------------------------------------------------------------

IsCont(c) == c \in 128..191

\* The length of the well-formed UTF-8 sequence that starts at b[i], or 0.
Utf8SeqLen(b, i) ==
    LET n  == Len(b)
        c  == b[i]
        c1 == IF i + 1 <= n THEN b[i + 1] ELSE -1
        c2 == IF i + 2 <= n THEN b[i + 2] ELSE -1
        c3 == IF i + 3 <= n THEN b[i + 3] ELSE -1
    IN  IF c <= 127 THEN 1
        ELSE IF c \in 194..223 THEN (IF IsCont(c1) THEN 2 ELSE 0)
        ELSE IF c = 224 THEN (IF c1 \in 160..191 /\ IsCont(c2) THEN 3 ELSE 0)
        ELSE IF c = 237 THEN (IF c1 \in 128..159 /\ IsCont(c2) THEN 3 ELSE 0)
        ELSE IF c \in 225..239 THEN (IF IsCont(c1) /\ IsCont(c2) THEN 3 ELSE 0)
        ELSE IF c = 240
             THEN (IF c1 \in 144..191 /\ IsCont(c2) /\ IsCont(c3) THEN 4 ELSE 0)
        ELSE IF c \in 241..243
             THEN (IF IsCont(c1) /\ IsCont(c2) /\ IsCont(c3) THEN 4 ELSE 0)
        ELSE IF c = 244
             THEN (IF c1 \in 128..143 /\ IsCont(c2) /\ IsCont(c3) THEN 4 ELSE 0)
        ELSE 0

\* from_utf8 succeeds when the bytes split into well-formed sequences: every
\* byte that is not a continuation byte starts one, and every continuation
\* byte lies inside the one started at most three bytes before it.
IsUtf8(b) ==
    \A i \in 1..Len(b) :
        IF IsCont(b[i])
        THEN \E d \in 1..3 :
                 /\ i - d >= 1
                 /\ \A k \in 1..(d - 1) : IsCont(b[i - k])
                 /\ ~IsCont(b[i - d])
                 /\ Utf8SeqLen(b, i - d) > d
        ELSE Utf8SeqLen(b, i) > 0

\* Message::get_text: the text of a Text message, as its UTF-8 bytes.
get_text(m) ==
    IF m.header.message_type = "Text"
    THEN (IF IsUtf8(m.payload) THEN Ok(m.payload) ELSE Err("Protocol"))
    ELSE Err("Protocol")

\* ------------------------------------------------------------------------
\* serde_json::from_slice::<Message>: the JSON reader, as far as the derived
\* Deserialize of Message, MessageHeader and MessageType drives it.
\* A parse result is Good(pos, val), pos the index after what was read, or
\* Fail.
\* ------------------------------------------------------------------------

Fail == [ok |-> FALSE]
Good(pos, val) == [ok |-> TRUE, pos |-> pos, val |-> val]

\* The byte at index i, or -1 past the end of the input.
At(b, i) == IF i >= 1 /\ i <= Len(b) THEN b[i] ELSE -1

IsWs(c) == c \in {32, 9, 10, 13}
IsDigit(c) == c \in 48..57
IsHex(c) == c \in 48..57 \/ c \in 65..70 \/ c \in 97..102
HexVal(c) == IF c \in 48..57 THEN c - 48 ELSE IF c \in 65..70 THEN c - 55 ELSE c - 87

\* parse_whitespace: the index of the first byte at or after i that is not
\* a space, tab, line feed or carriage return.
RECURSIVE SkipWs(_, _)
SkipWs(b, i) == IF IsWs(At(b, i)) THEN SkipWs(b, i + 1) ELSE i

\* Whether the bytes of `word` stand at b[i..].
StartsWith(b, i, word) ==
    /\ i + Len(word) - 1 <= Len(b)
    /\ \A k \in 1..Len(word) : b[i + k - 1] = word[k]

\* The digits of an unsigned integer from b[i] on, accumulated in acc (a
\* byte string as wide as the target type). A value that does not fit the
\* type is an error, and so is a fraction or an exponent.
RECURSIVE ParseDigits(_, _, _)

\* After the digit b[i]: r is <<acc * 10 + digit, carry>>.
DigitStep(b, i, r) == IF r[2] # 0 THEN Fail ELSE ParseDigits(b, i + 1, r[1])

ParseDigits(b, i, acc) ==
    CASE IsDigit(At(b, i)) -> DigitStep(b, i, MulTenAdd(acc, b[i] - 48))
      [] At(b, i) \in {46, 101, 69} -> Fail
      [] OTHER -> Good(i, acc)

\* deserialize_u8/u16/u32/u64: an unsigned integer of `width` bytes. A
\* minus sign, a leading zero before another digit, and anything that is
\* not a digit are errors.
ParseUnsigned(b, i, width) ==
    LET j == SkipWs(b, i)
        c == At(b, j)
    IN  IF c = 48
        THEN (IF IsDigit(At(b, j + 1)) \/ At(b, j + 1) \in {46, 101, 69}
              THEN Fail ELSE Good(j + 1, ToBytes(0, width)))
        ELSE IF c \in 49..57 THEN ParseDigits(b, j, ToBytes(0, width))
        ELSE Fail

\* The value of a one- or two-byte big-endian string.
RECURSIVE BytesToNat(_)
BytesToNat(b) ==
    IF b = <<>> THEN 0 ELSE 256 * BytesToNat(SubSeq(b, 1, Len(b) - 1)) + b[Len(b)]

SmallOf(r) == IF r.ok THEN Good(r.pos, BytesToNat(r.val)) ELSE Fail

\* deserialize_u8/u16, the value as a number.
ParseSmall(b, i, width) == SmallOf(ParseUnsigned(b, i, width))

\* A code point below 0x10000 in UTF-8.
EncodeUtf8(n) ==
    IF n < 128 THEN <<n>>
    ELSE IF n < 2048 THEN <<192 + (n \div 64), 128 + (n % 64)>>
    ELSE <<224 + (n \div 4096), 128 + ((n \div 64) % 64), 128 + (n % 64)>>

\* The code point of a surrogate pair, in UTF-8 (four bytes).
EncodeSurrogates(hi, lo) ==
    LET cp == 65536 + (hi - 55296) * 1024 + (lo - 56320)
    IN  <<240 + (cp \div 262144), 128 + ((cp \div 4096) % 64),
          128 + ((cp \div 64) % 64), 128 + (cp % 64)>>

\* Four hexadecimal digits at b[i..i+3], or -1.
Hex4(b, i) ==
    IF IsHex(At(b, i)) /\ IsHex(At(b, i + 1)) /\ IsHex(At(b, i + 2))
       /\ IsHex(At(b, i + 3))
    THEN 4096 * HexVal(b[i]) + 256 * HexVal(b[i + 1]) + 16 * HexVal(b[i + 2])
         + HexVal(b[i + 3])
    ELSE -1

\* The bytes parse_str and ignore_str stop at: the quote, the backslash and
\* the control characters.
IsStop(c) == c = 34 \/ c = 92 \/ c < 32

\* The index of the first byte at or after i that parse_str stops at, or
\* Len(b) + 1: the reader runs over the bytes between two stops in one go.
NextStop(b, i) ==
    CHOOSE j \in i..(Len(b) + 1) :
        /\ j <= Len(b) => IsStop(b[j])
        /\ \A k \in i..(j - 1) : ~IsStop(b[k])

\* parse_str, after the opening quote: the decoded string up to the closing
\* quote. Control characters, bad escapes and text that is not UTF-8 are
\* errors.
RECURSIVE ParseStr(_, _, _)

\* parse_escape: the escape whose backslash stands at b[j], `run` being the
\* string decoded so far.
ParseEscape(b, j, run) ==
    LET e  == At(b, j + 1)
        n1 == Hex4(b, j + 2)
        n2 == Hex4(b, j + 8)
    IN  CASE e \in {34, 92, 47} -> ParseStr(b, j + 2, Append(run, e))
          [] e = 98 -> ParseStr(b, j + 2, Append(run, 8))
          [] e = 102 -> ParseStr(b, j + 2, Append(run, 12))
          [] e = 110 -> ParseStr(b, j + 2, Append(run, 10))
          [] e = 114 -> ParseStr(b, j + 2, Append(run, 13))
          [] e = 116 -> ParseStr(b, j + 2, Append(run, 9))
          [] e = 117 /\ n1 \in 55296..56319 ->
               IF At(b, j + 6) = 92 /\ At(b, j + 7) = 117 /\ n2 \in 56320..57343
               THEN ParseStr(b, j + 12, run \o EncodeSurrogates(n1, n2))
               ELSE Fail
          [] e = 117 /\ n1 # -1 /\ n1 \notin 55296..57343 ->
               ParseStr(b, j + 6, run \o EncodeUtf8(n1))
          [] OTHER -> Fail

\* The reader has run from b[i] to the stop at b[j].
StrAtStop(b, j, run) ==
    CASE At(b, j) = 34 -> IF IsUtf8(run) THEN Good(j + 1, run) ELSE Fail
      [] At(b, j) = 92 -> ParseEscape(b, j, run)
      [] OTHER -> Fail

StrRun(b, i, acc, j) == StrAtStop(b, j, acc \o SubSeq(b, i, j - 1))

ParseStr(b, i, acc) == StrRun(b, i, acc, NextStop(b, i))

\* ignore_str, after the opening quote: the index after the closing quote,
\* or 0. Escapes are checked for their form only.
RECURSIVE IgnoreStr(_, _)
IgnoreAtStop(b, j) ==
    CASE At(b, j) = 34 -> j + 1
      [] At(b, j) = 92 /\ At(b, j + 1) \in {34, 92, 47, 98, 102, 110, 114, 116} ->
           IgnoreStr(b, j + 2)
      [] At(b, j) = 92 /\ At(b, j + 1) = 117 /\ Hex4(b, j + 2) # -1 ->
           IgnoreStr(b, j + 6)
      [] OTHER -> 0

IgnoreStr(b, i) == IgnoreAtStop(b, NextStop(b, i))

\* The index of the first byte at or after i that is not a digit.
SkipDigits(b, i) ==
    CHOOSE j \in i..(Len(b) + 1) :
        /\ j <= Len(b) => ~IsDigit(b[j])
        /\ \A k \in i..(j - 1) : IsDigit(b[k])

\* ignore_exponent, at the e or E.
IgnoreExponent(b, i) ==
    LET j == IF At(b, i + 1) \in {43, 45} THEN i + 2 ELSE i + 1
    IN  IF IsDigit(At(b, j)) THEN SkipDigits(b, j) ELSE 0

\* ignore_integer, after an optional minus sign: the index after the
\* number, or 0.
IgnoreNumber(b, i) ==
    LET c == At(b, i)
        j == IF c = 48 THEN (IF IsDigit(At(b, i + 1)) THEN 0 ELSE i + 1)
             ELSE IF c \in 49..57 THEN SkipDigits(b, i)
             ELSE 0
    IN  IF j = 0 THEN 0
        ELSE IF At(b, j) = 46
        THEN (IF IsDigit(At(b, j + 1))
              THEN LET k == SkipDigits(b, j + 1)
                   IN  IF At(b, k) \in {101, 69} THEN IgnoreExponent(b, k) ELSE k
              ELSE 0)
        ELSE IF At(b, j) \in {101, 69} THEN IgnoreExponent(b, j)
        ELSE j

\* ignore_value: the index after one JSON value of any kind (the value of
\* a field the structure does not know), or 0 when it is malformed.
RECURSIVE IgnoreValue(_, _)
RECURSIVE IgnoreElements(_, _, _)
RECURSIVE IgnoreMembers(_, _, _)
IgnoreValue(b, i) ==
    LET j == SkipWs(b, i)
        c == At(b, j)
    IN  IF c = 110 THEN (IF StartsWith(b, j, <<110, 117, 108, 108>>) THEN j + 4 ELSE 0)
        ELSE IF c = 116 THEN (IF StartsWith(b, j, <<116, 114, 117, 101>>) THEN j + 4 ELSE 0)
        ELSE IF c = 102
        THEN (IF StartsWith(b, j, <<102, 97, 108, 115, 101>>) THEN j + 5 ELSE 0)
        ELSE IF c = 45 THEN IgnoreNumber(b, j + 1)
        ELSE IF IsDigit(c) THEN IgnoreNumber(b, j)
        ELSE IF c = 34 THEN IgnoreStr(b, j + 1)
        ELSE IF c = 91 THEN IgnoreElements(b, j + 1, TRUE)
        ELSE IF c = 123 THEN IgnoreMembers(b, j + 1, TRUE)
        ELSE 0

\* The elements of an ignored array, after its [ (first) or after an
\* element.
IgnoreElements(b, i, first) ==
    LET j == SkipWs(b, i)
        c == At(b, j)
        v == IgnoreValue(b, IF first THEN j ELSE j + 1)
    IN  IF c = 93 THEN j + 1
        ELSE IF first \/ c = 44
        THEN (IF v = 0 THEN 0 ELSE IgnoreElements(b, v, FALSE))
        ELSE 0

\* The members of an ignored object, after its { (first) or after a member.
IgnoreMembers(b, i, first) ==
    LET j == SkipWs(b, i)
        c == At(b, j)
        k == IF first THEN j ELSE SkipWs(b, j + 1)
        s == IF At(b, k) = 34 THEN IgnoreStr(b, k + 1) ELSE 0
        colon == SkipWs(b, s)
        v == IF s # 0 /\ At(b, colon) = 58 THEN IgnoreValue(b, colon + 1) ELSE 0
    IN  IF c = 125 THEN j + 1
        ELSE IF first \/ c = 44
        THEN (IF v = 0 THEN 0 ELSE IgnoreMembers(b, v, FALSE))
        ELSE 0

\* A string value: the opening quote, then parse_str.
ParseString(b, i) ==
    LET j == SkipWs(b, i)
    IN  IF At(b, j) = 34 THEN ParseStr(b, j + 1, <<>>) ELSE Fail

\* end_seq / end_map: after the last field, only the closing bracket may
\* follow.
EndOf(b, i, close) ==
    LET j == SkipWs(b, i)
    IN  IF At(b, j) = close THEN j + 1 ELSE 0

\* The index of `name` in the field names, or 0 for a field the structure
\* does not know.
FieldIndex(names, name) ==
    IF \E k \in 1..Len(names) : names[k] = name
    THEN CHOOSE k \in 1..Len(names) : names[k] = name
    ELSE 0

HeaderFields ==
    <<FieldVersion, FieldMessageType, FieldSequenceNumber, FieldTimestamp,
      FieldPayloadLength>>

MessageFields == <<FieldHeader, FieldPayload, FieldChecksum>>

\* The field names of the two derived structures.
FieldsOf(kind) == IF kind = "MessageHeader" THEN HeaderFields ELSE MessageFields

RECURSIVE ParseStructMap(_, _, _, _, _)
RECURSIVE ParseStructSeq(_, _, _, _, _)
RECURSIVE ParseField(_, _, _, _)

\* After the value v of field idx: it is stored, and the next member read.
MapValue(b, acc, kind, idx, v) ==
    IF ~v.ok THEN Fail
    ELSE ParseStructMap(b, v.pos, FALSE, [acc EXCEPT ![idx] = <<v.val>>], kind)

\* After the value of an unknown field, which ends before index skip.
MapSkipped(b, acc, kind, skip) ==
    IF skip = 0 THEN Fail ELSE ParseStructMap(b, skip, FALSE, acc, kind)

\* After the key of a member: the colon, then the value of a known field
\* not yet read, or any value for an unknown field.
MapMember(b, acc, kind, key) ==
    IF ~key.ok THEN Fail
    ELSE LET colon == SkipWs(b, key.pos)
             idx   == FieldIndex(FieldsOf(kind), key.val)
         IN  IF At(b, colon) # 58 THEN Fail
             ELSE IF idx = 0
             THEN MapSkipped(b, acc, kind, IgnoreValue(b, colon + 1))
             ELSE IF Len(acc[idx]) = 1 THEN Fail
             ELSE MapValue(b, acc, kind, idx, ParseField(kind, idx, b, colon + 1))

\* visit_map of a derived structure: members in any order, each known field
\* at most once, unknown fields skipped; acc[k] is <<>> until field k is
\* read and <<value>> after. At the closing brace every field must be there.
ParseStructMap(b, i, first, acc, kind) ==
    LET names == FieldsOf(kind)
        j     == SkipWs(b, i)
        c     == At(b, j)
        k     == IF first THEN j ELSE SkipWs(b, j + 1)
    IN  Strict(acc,
        IF c = 125
        THEN (IF \A f \in 1..Len(names) : Len(acc[f]) = 1
              THEN Good(j + 1, [f \in 1..Len(names) |-> acc[f][1]])
              ELSE Fail)
        ELSE IF ~(first \/ c = 44) THEN Fail
        ELSE IF At(b, k) # 34 THEN Fail
        ELSE MapMember(b, acc, kind, ParseStr(b, k + 1, <<>>)))

\* After the value v of field k of an array: it is stored, and the next
\* element read.
SeqValue(b, k, acc, kind, v) ==
    IF ~v.ok THEN Fail
    ELSE ParseStructSeq(b, v.pos, k + 1, Append(acc, v.val), kind)

\* visit_seq of a derived structure: the fields in declaration order, as
\* the elements of an array; field k is read next.
ParseStructSeq(b, i, k, acc, kind) ==
    LET count == Len(FieldsOf(kind))
        j  == SkipWs(b, i)
        c  == At(b, j)
        at == IF k = 1 THEN j ELSE SkipWs(b, j + 1)
    IN  Strict(acc,
        IF k > count
        THEN (IF EndOf(b, i, 93) = 0 THEN Fail ELSE Good(EndOf(b, i, 93), acc))
        ELSE IF c = 93 \/ c = -1 THEN Fail
        ELSE IF k > 1 /\ c # 44 THEN Fail
        ELSE IF At(b, at) = 93 THEN Fail
        ELSE SeqValue(b, k, acc, kind, ParseField(kind, k, b, at)))

\* deserialize_struct: a structure is read from an object or from an array.
ParseStruct(b, i, kind) ==
    LET j == SkipWs(b, i)
        c == At(b, j)
    IN  IF c = 123
        THEN ParseStructMap(b, j + 1, TRUE, [f \in 1..Len(FieldsOf(kind)) |-> <<>>],
                            kind)
        ELSE IF c = 91 THEN ParseStructSeq(b, j + 1, 1, <<>>, kind)
        ELSE Fail

\* The variant of MessageType a name stands for.
VariantOf(name) ==
    IF \E t \in MessageType : VariantName(t) = name
    THEN Good(0, CHOOSE t \in MessageType : VariantName(t) = name)
    ELSE Fail

\* After the name s of the variant: it must be a known one, and in the
\* object form the value null and the closing brace follow.
VariantValue(b, c, s) ==
    LET t     == VariantOf(s.val)
        colon == SkipWs(b, s.pos)
        unit  == SkipWs(b, colon + 1)
        close == EndOf(b, unit + 4, 125)
    IN  IF c = 34
        THEN (IF s.ok /\ t.ok THEN Good(s.pos, t.val) ELSE Fail)
        ELSE IF c = 123
        THEN (IF s.ok /\ t.ok /\ At(b, colon) = 58
                 /\ StartsWith(b, unit, <<110, 117, 108, 108>>) /\ close # 0
              THEN Good(close, t.val) ELSE Fail)
        ELSE Fail

\* deserialize_enum for MessageType: "Text", or {"Text":null}.
ParseMessageType(b, i) ==
    LET j == SkipWs(b, i)
        c == At(b, j)
    IN  VariantValue(b, c, ParseString(b, IF c = 123 THEN j + 1 ELSE j))

\* The first index in lo..hi at which the byte c stands, or 0. The range is
\* halved so that the evaluation nests only logarithmically deep.
RECURSIVE FirstAt(_, _, _, _)
FirstOf(b, c, mid, hi, left) ==
    IF left # 0 THEN left ELSE FirstAt(b, c, mid + 1, hi)

FirstAt(b, c, lo, hi) ==
    IF lo > hi THEN 0
    ELSE IF lo = hi THEN (IF b[lo] = c THEN lo ELSE 0)
    ELSE FirstOf(b, c, (lo + hi) \div 2, hi, FirstAt(b, c, lo, (lo + hi) \div 2))

\* A comma in b[lo..hi] near the middle of the range, or 0.
CommaNear(b, lo, hi, right) ==
    IF right # 0 THEN right ELSE FirstAt(b, 44, lo, ((lo + hi) \div 2) - 1)

\* One element: white space, a number 0..255, white space, up to b[hi].
ElementValue(b, hi, v) ==
    IF v.ok /\ SkipWs(b, v.pos) = hi + 1 THEN Good(hi + 1, <<v.val>>) ELSE Fail

ElementsJoin(hi, l, r) ==
    IF l.ok /\ r.ok THEN Good(hi + 1, l.val \o r.val) ELSE Fail

\* The elements of a Vec<u8> that stand in b[lo..hi], separated by commas.
\* SeqAccess reads them from left to right; the range is split at a comma
\* near its middle, which reads the same elements.
RECURSIVE ParseByteElements(_, _, _)
ElementsAt(b, lo, hi, comma) ==
    IF comma = 0 THEN ElementValue(b, hi, ParseSmall(b, lo, 1))
    ELSE ElementsJoin(hi, ParseByteElements(b, lo, comma - 1),
                      ParseByteElements(b, comma + 1, hi))

ParseByteElements(b, lo, hi) ==
    ElementsAt(b, lo, hi,
               CommaNear(b, lo, hi, FirstAt(b, 44, (lo + hi) \div 2, hi)))

ArrayValue(close, elems) ==
    IF elems.ok THEN Good(close + 1, elems.val) ELSE Fail

ArrayUpTo(b, j, close) ==
    IF At(b, j) # 91 \/ close = 0 THEN Fail
    ELSE IF SkipWs(b, j + 1) = close THEN Good(close + 1, <<>>)
    ELSE ArrayValue(close, ParseByteElements(b, j + 1, close - 1))

\* deserialize_seq for Vec<u8>: an array of numbers 0..255. No element
\* holds a bracket, so the array ends at the first ] after its [.
ParseByteArray(b, i) ==
    ArrayUpTo(b, SkipWs(b, i), FirstAt(b, 93, SkipWs(b, i) + 1, Len(b)))

\* The header as a value: the five fields in declaration order.
HeaderValue(r) ==
    IF r.ok
    THEN Good(r.pos, MessageHeader(r.val[1], r.val[2], r.val[3], r.val[4], r.val[5]))
    ELSE Fail

ParseHeader(b, i) == HeaderValue(ParseStruct(b, i, "MessageHeader"))

\* The value of field k of a structure. MessageHeader: u8, MessageType,
\* u32, u64, u16. Message: MessageHeader, Vec<u8>, u32.
ParseField(kind, k, b, i) ==
    IF kind = "MessageHeader"
    THEN CASE k = 1 -> ParseSmall(b, i, 1)
           [] k = 2 -> ParseMessageType(b, i)
           [] k = 3 -> ParseUnsigned(b, i, 4)
           [] k = 4 -> ParseUnsigned(b, i, 8)
           [] k = 5 -> ParseSmall(b, i, 2)
           [] OTHER -> Fail
    ELSE CASE k = 1 -> ParseHeader(b, i)
           [] k = 2 -> ParseByteArray(b, i)
           [] k = 3 -> ParseUnsigned(b, i, 4)
           [] OTHER -> Fail

\* serde_json::from_slice::<Message>(bytes): Ok(message), or Err when the
\* bytes are not the JSON text of one Message, followed by nothing but
\* white space.
MessageValue(bytes, r) ==
    IF r.ok /\ SkipWs(bytes, r.pos) = Len(bytes) + 1
    THEN Ok(Message(r.val[1], r.val[2], r.val[3]))
    ELSE Err("Decoding")

DeserializeMessage(bytes) == MessageValue(bytes, ParseStruct(bytes, 1, "Message"))

\* ------------------------------------------------------------------------
\* ProtocolDecoder (protocol.rs, lines 209-373)
\* ------------------------------------------------------------------------

\* feed_data cuts a buffer of more than BUFFER_LIMIT bytes down to its
\* newest keep_size bytes.
BUFFER_LIMIT == 10000
keep_size == 5000

DecoderState ==
    {"WaitingForPreamble", "WaitingForStart", "ReadingLength", "ReadingMessage",
     "WaitingForEnd"}

\* ProtocolDecoder::new
ProtocolDecoder_new ==
    [buffer |-> <<>>, state |-> "WaitingForPreamble", expected_length |-> 0]

\* ProtocolDecoder::find_preamble: the first offset (from 0) at which the
\* doubled preamble stands in the buffer, or -1 for None.
\* The first index in lo..hi (counted from 0) at which pattern stands in
\* buffer, or -1: Iterator::find over the candidate positions.
RECURSIVE FindFrom(_, _, _, _)
FoundOr(buffer, pattern, mid, hi, left) ==
    IF left # -1 THEN left ELSE FindFrom(buffer, pattern, mid + 1, hi)

FindFrom(buffer, pattern, lo, hi) ==
    IF lo > hi THEN -1
    ELSE IF lo = hi
    THEN (IF \A k \in 1..Len(pattern) : buffer[lo + k] = pattern[k] THEN lo ELSE -1)
    ELSE FoundOr(buffer, pattern, (lo + hi) \div 2, hi,
                 FindFrom(buffer, pattern, lo, (lo + hi) \div 2))

\* ProtocolDecoder::find_preamble: Some(index) of the first double
\* preamble in the buffer, -1 standing for None.
find_preamble(buffer) ==
    LET double_preamble == PREAMBLE \o PREAMBLE
    IN  IF Len(buffer) < Len(double_preamble) THEN -1
        ELSE FindFrom(buffer, double_preamble, 0,
                      Len(buffer) - Len(double_preamble))

\* What one call of try_decode_message leaves: the decoder, and None,
\* Some(Ok(message)) or Some(Err(..)).
Decoded(d, result) == [dec |-> d, result |-> result]
None == [some |-> FALSE]
Some(r) == [some |-> TRUE, res |-> r]

RECURSIVE try_decode_message(_)

\* WaitingForPreamble, find_preamble having returned pos.
AfterPreamble(d, pos) ==
    IF pos # -1
    THEN try_decode_message([d EXCEPT !.buffer = Drain(d.buffer, pos),
                                      !.state = "WaitingForStart"])
    ELSE Decoded(d, None)

\* A faulty ReadingMessage arm, which gives up a message whose end
\* delimiter is missing: a frame without end delimiter must tell it from the
\* code's.
AfterBodyNeedingEnd(d, rest, message) ==
    IF message.ok
       /\ Len(rest) >= Len(END_DELIMITER)
       /\ Slice(rest, 1, Len(END_DELIMITER)) = END_DELIMITER
    THEN Decoded([d EXCEPT !.buffer = Drain(rest, Len(END_DELIMITER)),
                           !.state = "WaitingForPreamble"],
                 Some(message))
    ELSE Decoded([d EXCEPT !.buffer = rest, !.state = "WaitingForPreamble"],
                 Some(Err("Decoding")))

\* A faulty ReadingMessage arm, which throws the buffer away when the body
\* does not deserialize: a frame after such a body must tell it from the
\* code's.
AfterBodyDroppingBuffer(d, rest, message) ==
    IF message.ok
    THEN IF Len(rest) >= Len(END_DELIMITER)
            /\ Slice(rest, 1, Len(END_DELIMITER)) = END_DELIMITER
         THEN Decoded([d EXCEPT !.buffer = Drain(rest, Len(END_DELIMITER)),
                                !.state = "WaitingForPreamble"],
                      Some(message))
         ELSE Decoded([d EXCEPT !.buffer = rest, !.state = "WaitingForPreamble"],
                      Some(message))
    ELSE Decoded([d EXCEPT !.buffer = <<>>, !.state = "WaitingForPreamble"],
                 Some(message))

\* ReadingMessage, the body bytes taken off the buffer (rest is what is
\* left) and serde_json having returned `message`.
AfterBody(d, rest, message) ==
    IF message.ok
    THEN IF Len(rest) >= Len(END_DELIMITER)
            /\ Slice(rest, 1, Len(END_DELIMITER)) = END_DELIMITER
         THEN Decoded([d EXCEPT !.buffer = Drain(rest, Len(END_DELIMITER)),
                                !.state = "WaitingForPreamble"],
                      Some(message))
         ELSE \* Missing end delimiter, but a valid message
              Decoded([d EXCEPT !.buffer = rest, !.state = "WaitingForPreamble"],
                      Some(message))
    ELSE Decoded([d EXCEPT !.buffer = rest, !.state = "WaitingForPreamble"],
                 Some(message))

\* A faulty WaitingForStart arm, which drops the whole preamble when no
\* start delimiter follows it: a run of more than eight 0xAA bytes must tell
\* it from the code's.
AfterStartDroppingPreamble(d, start) ==
    IF start = START_DELIMITER
    THEN try_decode_message(
             [d EXCEPT !.buffer = Drain(d.buffer, Len(PREAMBLE) * 2 + Len(START_DELIMITER)),
                       !.state = "ReadingLength"])
    ELSE try_decode_message(
             [d EXCEPT !.buffer = Drain(d.buffer, Len(PREAMBLE) * 2),
                       !.state = "WaitingForPreamble"])

\* WaitingForStart with enough bytes buffered, `start` being the two bytes
\* after the preamble.
AfterStart(d, start) ==
    IF start = START_DELIMITER
    THEN try_decode_message(
             [d EXCEPT !.buffer = Drain(d.buffer, Len(PREAMBLE) * 2 + Len(START_DELIMITER)),
                       !.state = "ReadingLength"])
    ELSE \* Invalid start, look for next preamble
         try_decode_message(
             [d EXCEPT !.buffer = Drain(d.buffer, 1),
                       !.state = "WaitingForPreamble"])

\* A faulty ReadingLength arm, which drops both bytes of a length that is
\* too large: the byte left in the buffer must tell it from the code's.
AfterLengthDroppingBoth(d, expected_length) ==
    IF expected_length > MAX_MESSAGE_LENGTH * 2
    THEN try_decode_message(
             [d EXCEPT !.expected_length = expected_length,
                       !.buffer = Drain(d.buffer, 2),
                       !.state = "WaitingForPreamble"])
    ELSE try_decode_message(
             [d EXCEPT !.expected_length = expected_length,
                       !.buffer = Drain(d.buffer, 2),
                       !.state = "ReadingMessage"])

\* ReadingLength with two bytes buffered, expected_length being
\* u16::from_be_bytes of the two.
AfterLength(d, expected_length) ==
    IF expected_length > MAX_MESSAGE_LENGTH * 2
    THEN \* Invalid length, reset
         try_decode_message(
             [d EXCEPT !.expected_length = expected_length,
                       !.buffer = Drain(d.buffer, 1),
                       !.state = "WaitingForPreamble"])
    ELSE try_decode_message(
             [d EXCEPT !.expected_length = expected_length,
                       !.buffer = Drain(d.buffer, 2),
                       !.state = "ReadingMessage"])

\* ProtocolDecoder::try_decode_message
try_decode_message(d) ==
    CASE d.state = "WaitingForPreamble" ->
           AfterPreamble(d, find_preamble(d.buffer))
      [] d.state = "WaitingForStart" ->
           IF Len(d.buffer) >= Len(PREAMBLE) * 2 + Len(START_DELIMITER)
           THEN AfterStart(d, Slice(d.buffer, Len(PREAMBLE) * 2 + 1,
                                    Len(PREAMBLE) * 2 + Len(START_DELIMITER)))
           ELSE Decoded(d, None)
      [] d.state = "ReadingLength" ->
           IF Len(d.buffer) >= 2
           THEN AfterLength(d, d.buffer[1] * 256 + d.buffer[2])
           ELSE Decoded(d, None)
      [] d.state = "ReadingMessage" ->
           IF Len(d.buffer) >= d.expected_length
           THEN AfterBody(d, Drain(d.buffer, d.expected_length),
                          DeserializeMessage(Slice(d.buffer, 1, d.expected_length)))
           ELSE Decoded(d, None)
      [] d.state = "WaitingForEnd" ->
           IF Len(d.buffer) >= Len(END_DELIMITER)
           THEN IF Slice(d.buffer, 1, Len(END_DELIMITER)) = END_DELIMITER
                THEN try_decode_message(
                         [d EXCEPT !.buffer = Drain(d.buffer, Len(END_DELIMITER)),
                                   !.state = "WaitingForPreamble"])
                ELSE \* Skip invalid end delimiter
                     try_decode_message(
                         [d EXCEPT !.buffer = Drain(d.buffer, 1),
                                   !.state = "WaitingForPreamble"])
           ELSE Decoded(d, None)

\* The while loop of feed_data: decode until try_decode_message returns
\* None, keeping the messages whose checksum verifies.
RECURSIVE DecodeLoop(_, _)

\* The body of the loop, try_decode_message having returned r.
LoopBody(messages, r) ==
    IF ~r.result.some THEN [dec |-> r.dec, messages |-> messages]
    ELSE IF r.result.res.ok
    THEN (IF verify_checksum(r.result.res.val)
          THEN DecodeLoop(r.dec, Append(messages, r.result.res.val))
          ELSE DecodeLoop(r.dec, messages))
    ELSE \* Reset state on error
         DecodeLoop([r.dec EXCEPT !.state = "WaitingForPreamble"], messages)

DecodeLoop(d, messages) ==
    Strict(messages, LoopBody(messages, try_decode_message(d)))

\* A faulty end of feed_data, which never cuts the buffer: the bound on the
\* buffer must tell it from the code's.
KeepsWholeBuffer(loop) == loop

\* A faulty end of feed_data, which keeps the oldest keep_size bytes: the
\* beginning of a preamble at the end of the buffer must tell it from the
\* code's.
KeepsOldestBytes(loop) ==
    IF Len(loop.dec.buffer) > BUFFER_LIMIT
    THEN [dec |-> [loop.dec EXCEPT
                      !.buffer = SubSeq(loop.dec.buffer, 1, keep_size),
                      !.state = "WaitingForPreamble"],
          messages |-> loop.messages]
    ELSE loop

\* Keep buffer size reasonable: what feed_data does once the loop is over.
KeepBufferReasonable(loop) ==
    IF Len(loop.dec.buffer) > BUFFER_LIMIT
    THEN [dec |-> [loop.dec EXCEPT
                      !.buffer = Drain(loop.dec.buffer,
                                       Len(loop.dec.buffer) - keep_size),
                      !.state = "WaitingForPreamble"],
          messages |-> loop.messages]
    ELSE loop

\* A faulty feed_data, which starts every call looking for a preamble: a
\* frame that arrives in two chunks must tell it from the code's.
FeedDataFromPreamble(d, data) ==
    KeepBufferReasonable(DecodeLoop([d EXCEPT !.buffer = d.buffer \o data,
                                              !.state = "WaitingForPreamble"], <<>>))

\* ProtocolDecoder::feed_data: the decoder after the call and the messages
\* it returns.
feed_data(d, data) ==
    KeepBufferReasonable(DecodeLoop([d EXCEPT !.buffer = d.buffer \o data], <<>>))

\* ProtocolDecoder::reset
ProtocolDecoder_reset(d) ==
    [d EXCEPT !.buffer = <<>>, !.state = "WaitingForPreamble", !.expected_length = 0]

\* ------------------------------------------------------------------------
\* The system: an encoder and a decoder joined by a byte stream
\* ------------------------------------------------------------------------

VARIABLES
    encoder,    \* the ProtocolEncoder
    base,       \* the encode_text calls that had succeeded when the run starts
    calls,      \* the encode_text calls that have succeeded since
    decoder,    \* the ProtocolDecoder
    wire,       \* the bytes put on the stream and not yet fed to the decoder
    sent,       \* the messages whose frames were put on the stream, in order
    delivered,  \* the messages feed_data has returned so far, in order
    damage,     \* what the channel did to the stream: garbage put in, bytes changed
    last,       \* the most recent operation, its arguments and its result
    listen      \* UshApp::listen_for_messages: the shared sample buffer and the loop

encoderVars == <<encoder, base, calls>>
streamVars == <<decoder, wire, sent, delivered, damage>>
vars == <<encoder, base, calls, decoder, wire, sent, delivered, damage, last, listen>>

\* listen_for_messages has not been called: no buffer, no loop.
NotListening ==
    [pc |-> "none", recorded_samples |-> <<>>, captured |-> 0,
     samples |-> <<>>, start_idx |-> 0, handed |-> {}]

\* ---- the inputs -----------------------------------------------------------

MaxTextChars == 1
MaxTick == 1
MaxCalls == 5
MaxTamperOffset == 2

\* The characters short texts are made of: "H", a tab, and the two-byte "e"
\* with an acute accent.
Alphabet == {<<72>>, <<9>>, <<195, 169>>}

RECURSIVE TextsUpTo(_)
TextsUpTo(n) ==
    IF n = 0 THEN {<<>>}
    ELSE LET shorter == TextsUpTo(n - 1)
         IN  shorter \cup {t \o c : t \in shorter, c \in Alphabet}

ShortTexts == TextsUpTo(MaxTextChars)

\* The longest text new_text accepts, and a text one byte longer.
LongestText == [i \in 1..MAX_MESSAGE_LENGTH |-> 97]
TooLongText == [i \in 1..(MAX_MESSAGE_LENGTH + 1) |-> 97]

\* The readings of the wall clock, in seconds since the epoch.
Clock == {ToBytes(1700000000 + t, 8) : t \in 0..MaxTick}

\* Sequence numbers a caller may pass to a factory.
SequenceNumbers == {U32Zero, ToBytes(42, 4), <<255, 255, 255, 255>>}

\* b + n for a big-endian byte string b and a small n, the carry out of the
\* most significant byte dropped.
RECURSIVE Plus(_, _)
Plus(b, n) ==
    IF b = <<>> THEN <<>>
    ELSE LET k   == Len(b)
             cur == b[k] + n
         IN  Plus(SubSeq(b, 1, k - 1), cur \div 256) \o <<cur % 256>>

\* x mod 2^32 for a byte string of five bytes.
Low32(x) == SubSeq(x, 2, 5)

\* The body a frame carries between its length field and its end delimiter,
\* and the message it deserializes to.
FrameBody(frame) == Slice(frame, 13, Len(frame) - 2)
FrameMessage(frame) == DeserializeMessage(FrameBody(frame)).val

\* ---- the operations -------------------------------------------------------

Idle == [op |-> "none"]

\* A call of encoder.encode_text(text) at the clock reading now.
EncodeText(text, now) ==
    LET r == encode_text(encoder, text, now)
    IN  /\ encoder' = r.enc
        /\ calls' = IF r.result.ok THEN calls + 1 ELSE calls
        /\ last' = [op |-> "encode_text", text |-> text, now |-> now,
                    result |-> r.result]
        /\ UNCHANGED <<base, streamVars, listen>>

\* A call of encoder.encode_message(message).
EncodeMessage(message) ==
    /\ last' = [op |-> "encode_message", message |-> message,
                result |-> encode_message(message)]
    /\ UNCHANGED <<encoderVars, streamVars, listen>>

\* A call of encoder.get_next_sequence_number().
GetNextSequenceNumber ==
    /\ last' = [op |-> "get_next_sequence_number",
                result |-> get_next_sequence_number(encoder)]
    /\ UNCHANGED <<encoderVars, streamVars, listen>>

\* ---- the encoder on its own -----------------------------------------------

\* A fresh encoder, or one on which 2^32 - 2 encode_text calls have succeeded.
EncoderStarts ==
    {[enc |-> ProtocolEncoder_new, base |-> <<0, 0, 0, 0, 0>>],
     [enc |-> [sequence_counter |-> <<255, 255, 255, 254>>],
      base |-> <<0, 255, 255, 255, 254>>]}

\* The texts the encoder is given: two it accepts and one it refuses.
EncoderTexts == {<<>>, <<72, 105>>, TooLongText}

\* Messages handed to encode_message: built by the factories with any
\* sequence number, or put together by the caller.
EncoderMessages ==
    {new_ack(ToBytes(42, 4), ToBytes(1700000000, 8)).val,
     new_ping(<<255, 255, 255, 255>>, ToBytes(1700000000, 8)).val,
     Message(MessageHeader(PROTOCOL_VERSION, "File", ToBytes(7, 4),
                           ToBytes(1700000000, 8), 0),
             <<1, 2, 3>>, U32Zero)}

InitEncoder ==
    /\ \E s \in EncoderStarts : encoder = s.enc /\ base = s.base
    /\ calls = 0
    /\ decoder = ProtocolDecoder_new
    /\ wire = <<>>
    /\ sent = <<>>
    /\ delivered = <<>>
    /\ damage = <<>>
    /\ last = Idle
    /\ listen = NotListening

NextEncoder ==
    \/ \E text \in EncoderTexts, now \in Clock :
           calls < MaxCalls /\ EncodeText(text, now)
    \/ \E message \in EncoderMessages : EncodeMessage(message)
    \/ GetNextSequenceNumber

SpecEncoder == InitEncoder /\ [][NextEncoder]_vars

\* C10: the sequence counter starts at 0; the k-th successful encode_text
\* call frames a message with sequence_number (k-1) mod 2^32, the number
\* get_next_sequence_number returns just before the call, and then adds one
\* to the counter, wrapping from 2^32-1 to 0; a failing encode_text, an
\* encode_message and a get_next_sequence_number leave the counter alone.
C10_CounterTracksCalls ==
    encoder.sequence_counter = Low32(Plus(base, calls))

C10_SequenceCounter ==
    [][ /\ C10_CounterTracksCalls
        /\ C10_CounterTracksCalls'
        /\ (base = <<0, 0, 0, 0, 0>> /\ calls = 0) =>
               get_next_sequence_number(encoder) = U32Zero
        /\ (last'.op = "encode_text" /\ last'.result.ok) =>
               /\ calls' = calls + 1
               /\ FrameMessage(last'.result.val).header.sequence_number
                      = Low32(Plus(base, calls))
               /\ FrameMessage(last'.result.val).header.sequence_number
                      = get_next_sequence_number(encoder)
               /\ encoder'.sequence_counter
                      = Low32(Plus(base, calls + 1))
        /\ (last'.op = "encode_text" /\ ~last'.result.ok) =>
               encoder' = encoder /\ calls' = calls
        /\ last'.op \in {"encode_message", "get_next_sequence_number"} =>
               encoder' = encoder
        /\ last'.op = "get_next_sequence_number" =>
               last'.result = Low32(Plus(base, calls))
      ]_vars

\* The counter has wrapped: the call that took it from 2^32-1 to 0 is done.
C10_Witness ==
    /\ last.op = "encode_text" /\ last.result.ok
    /\ base = <<0, 255, 255, 255, 254>> /\ calls = 2
    /\ encoder.sequence_counter = U32Zero
    /\ FrameMessage(last.result.val).header.sequence_number
           = <<255, 255, 255, 255>>

\* C11: every frame encode_message returns is, in order, eight bytes 0xAA,
\* the bytes 7E 7E, two bytes that hold the length of the body (most
\* significant byte first), the serialized message, and the bytes 7E 7E;
\* it is 14 bytes longer than the body.
C11_FrameLayout ==
    last.op = "encode_message" =>
        LET frame == last.result.val
            body  == SerializeMessage(last.message)
        IN  /\ last.result.ok
            /\ Len(frame) = Len(body) + 14
            /\ \A i \in 1..8 : frame[i] = 170
            /\ frame[9] = 126 /\ frame[10] = 126
            /\ Len(body) < 65536 => 256 * frame[11] + frame[12] = Len(body)
            /\ SubSeq(frame, 13, Len(frame) - 2) = body
            /\ frame[Len(frame) - 1] = 126 /\ frame[Len(frame)] = 126

\* The frame of a File message with the payload 1, 2, 3 has been built.
C11_Witness ==
    /\ last.op = "encode_message"
    /\ last.message.header.message_type = "File"
    /\ last.message.payload = <<1, 2, 3>>
    /\ Len(last.result.val) = Len(SerializeMessage(last.message)) + 14
    /\ SubSeq(last.result.val, 1, 12)
           = <<170, 170, 170, 170, 170, 170, 170, 170, 126, 126,
               Len(SerializeMessage(last.message)) \div 256,
               Len(SerializeMessage(last.message)) % 256>>

\* ---- one message: built by a factory, then tampered with ------------------

Factories == {"new_text", "new_ack", "new_ping"}

\* A call of Message::new_text(text, sequence_number) at the clock reading now.
NewText(text, sequence_number, now) ==
    /\ last' = [op |-> "new_text", text |-> text,
                sequence_number |-> sequence_number, now |-> now,
                result |-> new_text(text, sequence_number, now)]
    /\ UNCHANGED <<encoderVars, streamVars, listen>>

\* A call of Message::new_ack(sequence_number).
NewAck(sequence_number, now) ==
    /\ last' = [op |-> "new_ack", sequence_number |-> sequence_number,
                now |-> now, result |-> new_ack(sequence_number, now)]
    /\ UNCHANGED <<encoderVars, streamVars, listen>>

\* A call of Message::new_ping(sequence_number).
NewPing(sequence_number, now) ==
    /\ last' = [op |-> "new_ping", sequence_number |-> sequence_number,
                now |-> now, result |-> new_ping(sequence_number, now)]
    /\ UNCHANGED <<encoderVars, streamVars, listen>>

\* The header whose serialization is exactly bytes, if there is one.
HeaderOfBytes(bytes) ==
    LET r == ParseHeader(bytes, 1)
    IN  IF r.ok /\ r.pos = Len(bytes) + 1 /\ SerializeHeader(r.val) = bytes
        THEN Ok(r.val) ELSE Err("Decoding")

\* The values a tampered byte is given.
TamperBytes == {48, 57, 255}

\* The positions of a byte string within MaxTamperOffset of one of its ends.
TamperPositions(bytes) ==
    {i \in 1..Len(bytes) : i <= MaxTamperOffset \/ i > Len(bytes) - MaxTamperOffset}

\* One byte of the serialized header of the message just built becomes v,
\* the payload and the stored checksum staying as they are.
TamperHeader(v) ==
    /\ last.op \in Factories /\ last.result.ok
    /\ \E i \in 1..Len(SerializeHeader(last.result.val.header)) :
           LET m       == last.result.val
               bytes   == SerializeHeader(m.header)
               changed == HeaderOfBytes([bytes EXCEPT ![i] = v])
           IN  /\ bytes[i] # v
               /\ changed.ok
               /\ last' = [op |-> "tamper_header", original |-> m,
                           result |-> [m EXCEPT !.header = changed.val]]
    /\ UNCHANGED <<encoderVars, streamVars, listen>>

\* One byte of the payload of the message just built becomes v, the header
\* and the stored checksum staying as they are.
TamperPayload(v) ==
    /\ last.op \in Factories /\ last.result.ok
    /\ \E i \in TamperPositions(last.result.val.payload) :
           LET m == last.result.val
           IN  /\ m.payload[i] # v
               /\ last' = [op |-> "tamper_payload", original |-> m,
                           result |-> [m EXCEPT !.payload[i] = v]]
    /\ UNCHANGED <<encoderVars, streamVars, listen>>

MessageTexts == ShortTexts \cup {LongestText, TooLongText}

InitMessage ==
    /\ encoder = ProtocolEncoder_new
    /\ base = <<0, 0, 0, 0, 0>>
    /\ calls = 0
    /\ decoder = ProtocolDecoder_new
    /\ wire = <<>>
    /\ sent = <<>>
    /\ delivered = <<>>
    /\ damage = <<>>
    /\ last = Idle
    /\ listen = NotListening

\* Each run follows one message: a factory builds it, then one byte of it
\* is changed.
NextMessage ==
    \/ \E text \in MessageTexts, seq \in SequenceNumbers, now \in Clock :
           last = Idle /\ NewText(text, seq, now)
    \/ \E seq \in SequenceNumbers, now \in Clock : last = Idle /\ NewAck(seq, now)
    \/ \E seq \in SequenceNumbers, now \in Clock : last = Idle /\ NewPing(seq, now)
    \/ \E v \in TamperBytes : TamperHeader(v)
    \/ \E v \in TamperBytes : TamperPayload(v)

SpecMessage == InitMessage /\ [][NextMessage]_vars

\* C9: new_text fails, with a Protocol error, exactly when the text has more
\* than 1024 bytes; on success the message has type Text, the sequence
\* number passed, the text bytes as payload, their number as
\* header.payload_length, and a checksum that verifies.
C9_NewText ==
    last.op = "new_text" =>
        /\ last.result.ok <=> Len(last.text) <= 1024
        /\ ~last.result.ok => last.result.err = "Protocol"
        /\ last.result.ok =>
               LET m == last.result.val
               IN  /\ m.header.message_type = "Text"
                   /\ m.header.sequence_number = last.sequence_number
                   /\ m.payload = last.text
                   /\ m.header.payload_length = Len(m.payload)
                   /\ verify_checksum(m)

\* A text of exactly 1024 bytes has been accepted.
C9_Witness ==
    /\ last.op = "new_text" /\ Len(last.text) = 1024
    /\ last.result.ok /\ Len(last.result.val.payload) = 1024

\* C7: a message as a factory built it verifies; with one byte of its
\* payload changed, or one byte of its serialized header changed (the result
\* being the serialization of a header again), and the stored checksum
\* kept, it does not.
C7_CrcSoundness ==
    /\ (last.op \in Factories /\ last.result.ok) => verify_checksum(last.result.val)
    /\ last.op \in {"tamper_header", "tamper_payload"} =>
           ~verify_checksum(last.result)

\* One digit of the timestamp in the serialized header has been changed.
C7_Witness ==
    /\ last.op = "tamper_header"
    /\ last.result.header.timestamp # last.original.header.timestamp
    /\ last.result.checksum = last.original.checksum
    /\ ~verify_checksum(last.result)

\* ---- the stream: frames put on it, bytes fed to the decoder ---------------

\* encoder.encode_text(text) at the clock reading now, the frame going onto
\* the stream.
Send(text, now) ==
    LET r == encode_text(encoder, text, now)
    IN  /\ r.result.ok
        /\ encoder' = r.enc
        /\ calls' = calls + 1
        /\ wire' = wire \o r.result.val
        /\ sent' = Append(sent, [message |-> new_text(text, encoder.sequence_counter, now).val,
                                 size |-> Len(r.result.val)])
        /\ last' = [op |-> "encode_text", text |-> text, now |-> now,
                    result |-> r.result]
        /\ UNCHANGED <<base, decoder, delivered, damage, listen>>

\* encoder.encode_message(message), the frame going onto the stream.
SendMessage(message) ==
    LET r == encode_message(message)
    IN  /\ wire' = wire \o r.val
        /\ sent' = Append(sent, [message |-> message, size |-> Len(r.val)])
        /\ last' = [op |-> "encode_message", message |-> message, result |-> r]
        /\ UNCHANGED <<encoderVars, decoder, delivered, damage, listen>>

\* What a feed_data call that returned r leaves behind.
Fed(n, r) ==
    /\ decoder' = r.dec
    /\ delivered' = delivered \o r.messages
    /\ last' = [op |-> "feed_data", fresh |-> decoder = ProtocolDecoder_new,
                size |-> n, result |-> r.messages]

\* decoder.feed_data(data), data being the next n bytes of the stream.
Feed(n) ==
    /\ n \in 1..Len(wire)
    /\ Fed(n, feed_data(decoder, SubSeq(wire, 1, n)))
    /\ wire' = Drain(wire, n)
    /\ UNCHANGED <<encoderVars, sent, damage, listen>>

\* The channel puts the bytes of garbage on the stream.
Garbage(garbage) ==
    /\ wire' = wire \o garbage
    /\ damage' = Append(damage, [kind |-> "garbage", at |-> Len(wire) + 1,
                                 size |-> Len(garbage)])
    /\ last' = [op |-> "garbage"]
    /\ UNCHANGED <<encoderVars, decoder, sent, delivered, listen>>

\* The channel replaces the byte at position i of the stream by v.
Corrupt(i, v) ==
    /\ i \in 1..Len(wire)
    /\ wire[i] # v
    /\ wire' = [wire EXCEPT ![i] = v]
    /\ damage' = Append(damage, [kind |-> "corrupt", at |-> i, was |-> wire[i], to |-> v])
    /\ last' = [op |-> "corrupt"]
    /\ UNCHANGED <<encoderVars, decoder, sent, delivered, listen>>

\* ProtocolDecoder::new() for a new stream.
NewDecoder ==
    /\ decoder' = ProtocolDecoder_new
    /\ wire' = <<>>
    /\ sent' = <<>>
    /\ delivered' = <<>>
    /\ damage' = <<>>
    /\ last' = [op |-> "ProtocolDecoder_new"]
    /\ UNCHANGED <<encoderVars, listen>>

InitStream ==
    /\ encoder = ProtocolEncoder_new
    /\ base = <<0, 0, 0, 0, 0>>
    /\ calls = 0
    /\ decoder = ProtocolDecoder_new
    /\ wire = <<>>
    /\ sent = <<>>
    /\ delivered = <<>>
    /\ damage = <<>>
    /\ last = Idle
    /\ listen = NotListening

\* The text of the i-th frame put on the stream.
SentText(i) == sent[i].message.payload

\* The length of the body of the i-th frame put on the stream.
SentBodyLen(i) == sent[i].size - Len(PREAMBLE) - Len(PREAMBLE)
                      - Len(START_DELIMITER) - 2 - Len(END_DELIMITER)

\* ---- one frame, fed whole to a fresh decoder ------------------------------

\* "wbabpC" followed by the bytes 1 and 2.
CollidingText == <<119, 98, 97, 98, 112, 67, 1, 2>>

\* A text of 600 bytes.
LongText == [i \in 1..600 |-> 97]

RoundTripTexts == ShortTexts \cup {CollidingText, LongText, LongestText}

\* Each round: one encode_text, the frame fed in one feed_data call to a
\* decoder just constructed, then a new decoder for the next round.
NextRoundTrip ==
    \/ \E text \in RoundTripTexts, now \in Clock :
           wire = <<>> /\ sent = <<>> /\ calls < MaxCalls /\ Send(text, now)
    \/ wire # <<>> /\ Feed(Len(wire))
    \/ wire = <<>> /\ sent # <<>> /\ NewDecoder

SpecRoundTrip == InitStream /\ [][NextRoundTrip]_vars

\* One frame from encode_text has been fed, whole and as the channel got it,
\* in one feed_data call to a decoder just constructed.
OneFrameFedWhole ==
    /\ last.op = "feed_data" /\ last.fresh
    /\ Len(sent) = 1 /\ last.size = sent[1].size
    /\ wire = <<>> /\ damage = <<>>

\* C1: a frame encode_text made of a text of at most 1024 bytes, fed in one
\* feed_data call to a fresh decoder, comes back as exactly one message, and
\* get_text of that message is the text.
C1_FrameRoundTrip ==
    OneFrameFedWhole =>
        /\ Len(last.result) = 1
        /\ get_text(last.result[1]) = Ok(SentText(1))

\* What the code does instead: the message comes back when its serialized
\* body has at most 2 * MAX_MESSAGE_LENGTH bytes, and nothing comes back when
\* it has more.
C1_RoundTripWithinLengthCheck ==
    OneFrameFedWhole =>
        IF SentBodyLen(1) <= 2 * MAX_MESSAGE_LENGTH
        THEN last.result = <<sent[1].message>>
        ELSE last.result = <<>>

\* The frame of a text of 1024 bytes has been fed and nothing came back.
C1_LongestTextLost ==
    /\ OneFrameFedWhole
    /\ Len(SentText(1)) = MAX_MESSAGE_LENGTH
    /\ last.result = <<>>

\* ---- frames with good and bad checksums ------------------------------------

MaxFrames == 3

\* A text message as new_text builds it, and the same with another payload
\* byte, the checksum left as it was.
HelloMessage == new_text(<<72, 105>>, U32Zero, ToBytes(1700000000, 8)).val
ForgedMessage == [HelloMessage EXCEPT !.payload = <<72, 111>>]

\* Messages handed to encode_message: three whose checksum is the one
\* calculate_checksum gives, two whose checksum is not.
ChecksumMessages ==
    {HelloMessage,
     new_ack(ToBytes(42, 4), ToBytes(1700000000, 8)).val,
     new_ping(<<255, 255, 255, 255>>, ToBytes(1700000000, 8)).val,
     ForgedMessage,
     Message(MessageHeader(PROTOCOL_VERSION, "File", ToBytes(7, 4),
                           ToBytes(1700000000, 8), 3),
             <<1, 2, 3>>, U32Zero)}

\* Up to MaxFrames frames go onto the stream, then all of it is fed in one
\* feed_data call.
NextChecksum ==
    \/ \E message \in ChecksumMessages :
           /\ Len(sent) < MaxFrames
           /\ delivered = <<>> /\ decoder = ProtocolDecoder_new
           /\ last.op # "feed_data"
           /\ SendMessage(message)
    \/ wire # <<>> /\ Feed(Len(wire))

SpecChecksum == InitStream /\ [][NextChecksum]_vars

\* The stored checksum of a message is the one its header and payload give.
ChecksumMatches(message) ==
    calculate_checksum(message.header, message.payload) = message.checksum

\* The messages of the frames put on the stream.
RECURSIVE SentMessages(_)
SentMessages(n) ==
    IF n = 0 THEN <<>> ELSE Append(SentMessages(n - 1), sent[n].message)

\* C2: feed_data returns a message only if its stored checksum is the CRC
\* of its header and payload; a frame that parses but whose checksum does
\* not match is dropped without an error, and decoding goes on with the
\* frames after it: what comes back is, in order, the messages of the
\* frames whose checksum matches.
C2_ChecksumGate ==
    /\ \A i \in 1..Len(delivered) : ChecksumMatches(delivered[i])
    /\ last.op = "feed_data" =>
           /\ last.result = SelectSeq(SentMessages(Len(sent)), ChecksumMatches)
           /\ decoder.state = "WaitingForPreamble"

\* A frame with a bad checksum and a good frame after it were fed in one
\* call: the first was dropped, the second came back.
C2_Witness ==
    /\ last.op = "feed_data" /\ Len(sent) = 2
    /\ ~ChecksumMatches(sent[1].message)
    /\ ChecksumMatches(sent[2].message)
    /\ last.result = <<sent[2].message>>

\* ---- one frame with one byte of its body replaced --------------------------

\* The values a byte of the stream is replaced by: "0", "9" and a space.
CorruptBytes == {48, 57, 32}

CorruptTexts == {<<>>, <<72>>, CollidingText}

\* The positions of the serialized message body within the only frame on the
\* stream.
BodyPositions ==
    (Len(PREAMBLE) + Len(PREAMBLE) + Len(START_DELIMITER) + 2 + 1)
        .. (Len(wire) - Len(END_DELIMITER))

\* One encode_text on a fresh encoder, one byte of the body of its frame
\* replaced by the channel, the result fed whole to a fresh decoder.
NextCorrupt ==
    \/ \E text \in CorruptTexts, now \in Clock :
           sent = <<>> /\ Send(text, now)
    \/ \E i \in BodyPositions, v \in CorruptBytes :
           Len(sent) = 1 /\ damage = <<>> /\ Corrupt(i, v)
    \/ damage # <<>> /\ wire # <<>> /\ Feed(Len(wire))

SpecCorrupt == InitStream /\ [][NextCorrupt]_vars

\* One frame from encode_text, one byte of its body replaced, has been fed
\* whole in one feed_data call to a decoder just constructed.
OneCorruptFrameFed ==
    /\ last.op = "feed_data" /\ last.fresh
    /\ Len(sent) = 1 /\ last.size = sent[1].size
    /\ wire = <<>>
    /\ Len(damage) = 1 /\ damage[1].kind = "corrupt"

\* C3: a frame from encode_text in which one byte of the serialized message
\* body was replaced by another value, fed to a fresh decoder, yields no
\* message.
C3_CorruptBodyRejected ==
    OneCorruptFrameFed => last.result = <<>>

\* What the code guarantees instead: a message that comes back carries a
\* checksum that matches its header and payload, whether or not it is the
\* message that was sent.
C3_DeliveredVerifies ==
    OneCorruptFrameFed => \A i \in 1..Len(last.result) : ChecksumMatches(last.result[i])

\* The comma between the last two payload bytes of the frame was replaced by
\* "0": a message with a seven-byte payload came back for the eight-byte
\* text sent, under the header and checksum of the original.
C3_OtherMessageDelivered ==
    /\ OneCorruptFrameFed
    /\ SentText(1) = CollidingText
    /\ damage[1].was = 44 /\ damage[1].to = 48
    /\ Len(last.result) = 1
    /\ last.result[1].payload = <<119, 98, 97, 98, 112, 67, 102>>
    /\ last.result[1].header = sent[1].message.header
    /\ last.result[1].checksum = sent[1].message.checksum
    /\ last.result[1].header.payload_length # Len(last.result[1].payload)

\* ---- one frame, fed in chunks ----------------------------------------------

MaxChunks == 180

\* The chunk sizes: byte by byte, five bytes at a time, a thousand at a time.
ChunkSizes == {1, 5, 1000}

ChunkTexts == {<<72>>, LongestText}

\* The next chunk of the stream: n bytes, or what is left of it.
Chunk(n) == Feed(IF n < Len(wire) THEN n ELSE Len(wire))

\* One encode_text, then the frame goes to a fresh decoder chunk by chunk,
\* one feed_data call per chunk; what is left of the stream is never cut
\* into more than MaxChunks chunks.
NextChunks ==
    \/ \E text \in ChunkTexts, now \in Clock : sent = <<>> /\ Send(text, now)
    \/ \E n \in ChunkSizes :
           /\ wire # <<>>
           /\ Len(wire) <= n * MaxChunks
           /\ Chunk(n)

SpecChunks == InitStream /\ [][NextChunks]_vars

\* One frame from encode_text has been fed completely, in one or more
\* chunks.
OneFrameFed == Len(sent) = 1 /\ wire = <<>> /\ damage = <<>> /\ last.op = "feed_data"

\* What one feed_data call on a decoder just constructed returns for the
\* frame of the i-th message sent.
WholeFeed(i) ==
    feed_data(ProtocolDecoder_new, encode_message(sent[i].message).val).messages

\* C4: a frame from encode_text, fed to a fresh decoder as consecutive chunks
\* of any sizes, one feed_data call per chunk, yields in total exactly one
\* message, the one a single call with the whole frame returns.
C4_ChunkedFeedOneMessage ==
    OneFrameFed => Len(delivered) = 1 /\ delivered = WholeFeed(1)

\* What holds in the code: the chunked calls return in total what the
\* single call returns, which is the message when its serialized body has
\* at most 2 * MAX_MESSAGE_LENGTH bytes and nothing otherwise.
C4_ChunkedAgreesWithWhole ==
    OneFrameFed =>
        /\ delivered = WholeFeed(1)
        /\ delivered = IF SentBodyLen(1) <= 2 * MAX_MESSAGE_LENGTH
                       THEN <<sent[1].message>> ELSE <<>>

\* The frame of a text of 1024 bytes has been fed in several chunks and
\* nothing came back.
C4_LongestTextLostInChunks ==
    /\ OneFrameFed /\ ~last.fresh
    /\ Len(SentText(1)) = MAX_MESSAGE_LENGTH
    /\ delivered = <<>>

\* A short frame has been fed byte by byte and came back once; its end
\* delimiter, which arrived after the message was returned, stays in the
\* buffer.
C4_ShortTextByteByByte ==
    /\ OneFrameFed /\ ~last.fresh /\ last.size = 1
    /\ decoder.buffer = END_DELIMITER
    /\ delivered = <<sent[1].message>>

\* ---- garbage before a frame ------------------------------------------------

\* Whether the doubled preamble, eight bytes 0xAA, stands somewhere in the
\* bytes.
ContainsPreamble(bytes) == find_preamble(bytes) # -1

\* Byte strings the channel may deliver before a frame: a single byte, runs
\* of 0xAA one short of a preamble, the beginning of a frame cut short, and
\* more bytes than the decoder keeps, with and without 0xAA bytes at the end.
GarbageRuns ==
    {<<0>>,
     <<170>>,
     Repeat(170, 7),
     Repeat(170, 7) \o <<0>> \o Repeat(170, 7),
     Repeat(170, 7) \o START_DELIMITER \o <<0, 1, 123>>,
     Repeat(85, BUFFER_LIMIT + 1),
     Repeat(85, BUFFER_LIMIT + 1) \o Repeat(170, 7),
     PREAMBLE \o PREAMBLE \o <<0>>}

ResyncGarbage == {g \in GarbageRuns : ~ContainsPreamble(g)}

ResyncTexts == {<<72>>, <<195, 169>>, LongestText}

\* Garbage arrives, then the frame of one encode_text; the decoder is fed
\* the garbage and the frame together, or the garbage first.
NextResync ==
    \/ \E garbage \in ResyncGarbage :
           wire = <<>> /\ sent = <<>> /\ damage = <<>> /\ Garbage(garbage)
    \/ \E text \in ResyncTexts, now \in Clock :
           damage # <<>> /\ sent = <<>> /\ Send(text, now)
    \/ wire # <<>> /\ Feed(Len(wire))

SpecResync == InitStream /\ [][NextResync]_vars

\* Garbage without a preamble in it and then one frame have been fed.
GarbageAndFrameFed ==
    /\ last.op = "feed_data" /\ wire = <<>>
    /\ Len(sent) = 1
    /\ Len(damage) = 1 /\ damage[1].kind = "garbage"

\* C5: bytes P that do not hold eight consecutive 0xAA, followed by a frame F
\* from encode_text, fed to a fresh decoder, yield exactly the one message
\* that F alone yields, also when P ends in 0xAA bytes and when P is longer
\* than the 10 000 bytes the decoder keeps.
C5_Resynchronization ==
    GarbageAndFrameFed => Len(delivered) = 1 /\ delivered = WholeFeed(1)

\* What holds in the code: garbage and frame yield what the frame alone
\* yields, which is the message when its serialized body has at most
\* 2 * MAX_MESSAGE_LENGTH bytes and nothing otherwise.
C5_GarbageAgreesWithFrameAlone ==
    GarbageAndFrameFed =>
        /\ delivered = WholeFeed(1)
        /\ delivered = IF SentBodyLen(1) <= 2 * MAX_MESSAGE_LENGTH
                       THEN <<sent[1].message>> ELSE <<>>

\* Garbage and the frame of a text of 1024 bytes have been fed and nothing
\* came back.
C5_LongestTextLostAfterGarbage ==
    /\ GarbageAndFrameFed
    /\ Len(SentText(1)) = MAX_MESSAGE_LENGTH
    /\ delivered = <<>>

\* More than 10 000 bytes of garbage ending in seven 0xAA bytes were fed
\* together with a short frame, and the message came back.
C5_ShortTextFoundAfterGarbage ==
    /\ GarbageAndFrameFed /\ last.fresh
    /\ damage[1].size = BUFFER_LIMIT + 1 + 7
    /\ delivered = <<sent[1].message>>

\* ---- several frames from one encoder ---------------------------------------

SequenceTexts == {<<72>>, <<195, 169>>, LongestText}

\* The clock reading at the next encode_text call: the calls are made one
\* second apart.
NextReading == Plus(ToBytes(1700000000, 8), Len(sent))

\* Up to MaxFrames encode_text calls on one encoder; the decoder is fed
\* whatever frames are on the stream, after each of them or after several.
NextSequence ==
    \/ \E text \in SequenceTexts :
           Len(sent) < MaxFrames /\ Send(text, NextReading)
    \/ wire # <<>> /\ Feed(Len(wire))

SpecSequence == InitStream /\ [][NextSequence]_vars

\* All the frames put on the stream have been fed.
AllFramesFed == sent # <<>> /\ wire = <<>> /\ damage = <<>> /\ last.op = "feed_data"

\* C6: the frames of N successive encode_text calls on one encoder, fed to
\* one decoder in a single call or frame by frame, come back as exactly N
\* messages in the order of the calls, the i-th carrying the i-th text.
C6_FramesInOrder ==
    AllFramesFed =>
        /\ Len(delivered) = Len(sent)
        /\ \A i \in 1..Len(sent) : get_text(delivered[i]) = Ok(SentText(i))

\* The messages sent whose serialized body has at most
\* 2 * MAX_MESSAGE_LENGTH bytes, among the first n.
RECURSIVE SentWithinLengthCheck(_)
SentWithinLengthCheck(n) ==
    IF n = 0 THEN <<>>
    ELSE IF SentBodyLen(n) <= 2 * MAX_MESSAGE_LENGTH
    THEN Append(SentWithinLengthCheck(n - 1), sent[n].message)
    ELSE SentWithinLengthCheck(n - 1)

\* What holds in the code: the messages come back in the order of the
\* calls, whatever their sequence numbers, except those whose serialized
\* body has more than 2 * MAX_MESSAGE_LENGTH bytes, which do not come back.
C6_OrderKeptAmongDecodable ==
    AllFramesFed => delivered = SentWithinLengthCheck(Len(sent))

\* Three frames were fed in a single call; the second, of a text of 1024
\* bytes, did not come back, the first and the third did.
C6_LongestTextMissing ==
    /\ AllFramesFed /\ last.fresh
    /\ Len(sent) = 3 /\ Len(SentText(2)) = MAX_MESSAGE_LENGTH
    /\ delivered = <<sent[1].message, sent[3].message>>

\* Three short frames were fed in a single call and came back in order,
\* with the sequence numbers 0, 1 and 2.
C6_ThreeShortInOrder ==
    /\ AllFramesFed /\ last.fresh
    /\ Len(sent) = 3 /\ Len(last.result) = 3
    /\ \A i \in 1..3 : /\ get_text(last.result[i]) = Ok(SentText(i))
                       /\ last.result[i].header.sequence_number = ToBytes(i - 1, 4)

\* ---- more bytes than the decoder keeps ------------------------------------

MaxGarbageRuns == 3

\* Runs of bytes that hold no preamble, each shorter than the limit of the
\* decoder and two of them longer; one ends in the beginning of a preamble.
BackpressureGarbage ==
    {Repeat(85, keep_size + 1000),
     Repeat(85, keep_size + 993) \o Repeat(170, 7)}

\* The sizes of the chunks fed: a part of what is on the stream, or all.
BackpressureChunks == {keep_size - 1000, 3 * BUFFER_LIMIT}

\* Runs of garbage arrive, each once the one before has been fed, and at
\* most one frame at any time; what is on the stream is fed in chunks.
NextBackpressure ==
    \/ \E garbage \in BackpressureGarbage :
           wire = <<>> /\ Len(damage) < MaxGarbageRuns /\ Garbage(garbage)
    \/ sent = <<>> /\ Send(<<72>>, ToBytes(1700000000, 8))
    \/ \E n \in BackpressureChunks :
           wire # <<>> /\ Feed(IF n < Len(wire) THEN n ELSE Len(wire))

SpecBackpressure == InitStream /\ [][NextBackpressure]_vars

\* C12: after every feed_data the buffer of the decoder holds at most 10000
\* bytes; when more than 10000 bytes are left once decoding has stopped,
\* exactly the newest 5000 of them are kept and the state is
\* WaitingForPreamble, and otherwise nothing is cut.
C12_BufferBounded ==
    [][ last'.op = "feed_data" =>
          LET loop == DecodeLoop([decoder EXCEPT
                                     !.buffer = @ \o SubSeq(wire, 1, last'.size)],
                                 <<>>)
              left == loop.dec.buffer
          IN  /\ Len(decoder'.buffer) <= 10000
              /\ Len(left) > 10000 =>
                     /\ decoder'.buffer = SubSeq(left, Len(left) - 4999, Len(left))
                     /\ decoder'.state = "WaitingForPreamble"
              /\ Len(left) <= 10000 => decoder' = loop.dec
      ]_vars

\* The buffer was cut to 5000 bytes by a feed_data call that brought fewer
\* than 5000 bytes: the bytes had piled up over several calls.
C12_Witness ==
    /\ last.op = "feed_data" /\ last.size < 5000
    /\ Len(decoder.buffer) = 5000
    /\ decoder.state = "WaitingForPreamble"

\* ------------------------------------------------------------------------
\* The BFSK modem (src/src/modulation.rs)
\* ------------------------------------------------------------------------
\* The code computes in f32; the model computes in fixed point. Frequencies
\* are whole hertz and durations whole milliseconds. A sample, a sine and a
\* cosine are kept in thousandths, a spectrum bin (a sum of products of the
\* two) in millionths, and a power as the squared modulus of the bin divided
\* by 4096, so that no sum leaves the range of the model checker's integers
\* for symbols of up to 512 samples.

CARRIER_FREQ_0 == 18000
CARRIER_FREQ_1 == 20000
\* 0.01 s and 0.002 s, in milliseconds.
SYMBOL_DURATION == 10
RAMP_DURATION == 2

ModulationConfig_default ==
    [sample_rate |-> 44100,
     freq_0 |-> CARRIER_FREQ_0,
     freq_1 |-> CARRIER_FREQ_1,
     symbol_duration |-> SYMBOL_DURATION,
     ramp_duration |-> RAMP_DURATION]

\* (sample_rate as f32 * duration) as usize, the duration in milliseconds.
SamplesIn(config, duration) == (config.sample_rate * duration) \div 1000

FskModulator_new(config) ==
    [config |-> config,
     samples_per_symbol |-> SamplesIn(config, config.symbol_duration),
     ramp_samples |-> SamplesIn(config, config.ramp_duration)]

\* 1000 * sin(2 pi j / 256) for j = 0..64, rounded: a quarter of a sine wave.
QuarterSine ==
    << 0, 25, 49, 74, 98, 122, 147, 171, 195, 219, 243, 267, 290,
       314, 337, 360, 383, 405, 428, 450, 471, 493, 514, 535, 556, 576,
       596, 615, 634, 653, 672, 690, 707, 724, 741, 757, 773, 788, 803,
       818, 831, 845, 858, 870, 882, 893, 904, 914, 924, 933, 942, 950,
       957, 964, 970, 976, 981, 985, 989, 992, 995, 997, 999, 1000, 1000 >>

\* The sine of r / den of a quarter turn, 0 <= r <= den, in thousandths:
\* the two nearest entries of the table, interpolated.
SinQuarter(r, den) ==
    IF r = den THEN QuarterSine[65]
    ELSE QuarterSine[(64 * r) \div den + 1]
         + ((QuarterSine[(64 * r) \div den + 2] - QuarterSine[(64 * r) \div den + 1])
            * ((64 * r) % den)) \div den

\* sin(): the sine of num / den of a turn, 0 <= num < den, in thousandths.
SinTurn(num, den) ==
    CASE (4 * num) \div den = 0 -> SinQuarter((4 * num) % den, den)
      [] (4 * num) \div den = 1 -> SinQuarter(den - ((4 * num) % den), den)
      [] (4 * num) \div den = 2 -> 0 - SinQuarter((4 * num) % den, den)
      [] (4 * num) \div den = 3 -> 0 - SinQuarter(den - ((4 * num) % den), den)

\* The cosine of num / den of a turn: the sine a quarter turn later.
CosTurn(num, den) == SinTurn((4 * num + den) % (4 * den), 4 * den)

\* (phase.sin() * ramp factors) * 0.3 for sample i (from 0) of a symbol.
SymbolSample(modulator, frequency, is_first, is_last, i) ==
    LET amplitude ==
            SinTurn((frequency * i) % modulator.config.sample_rate,
                    modulator.config.sample_rate)
        ramped_up ==
            IF is_first /\ i < modulator.ramp_samples
            THEN (amplitude * i) \div modulator.ramp_samples
            ELSE amplitude
        ramped_down ==
            IF is_last /\ i >= modulator.samples_per_symbol - modulator.ramp_samples
            THEN (ramped_up * (modulator.samples_per_symbol - i))
                     \div modulator.ramp_samples
            ELSE ramped_up
    IN (ramped_down * 3) \div 10

\* A faulty generate_symbol, which makes one sample too few: the length of
\* a signal must tell it from generate_symbol.
GenerateSymbolShort(modulator, frequency, is_first, is_last) ==
    [n \in 1..(modulator.samples_per_symbol - 1) |->
        SymbolSample(modulator, frequency, is_first, is_last, n - 1)]

generate_symbol(modulator, frequency, is_first, is_last) ==
    [n \in 1..modulator.samples_per_symbol |->
        SymbolSample(modulator, frequency, is_first, is_last, n - 1)]

\* usize::next_power_of_two.
next_power_of_two(n) ==
    CHOOSE p \in {2 ^ k : k \in 0..20} :
        /\ p >= n
        /\ \A k \in 0..20 : 2 ^ k >= n => 2 ^ k >= p

FskDemodulator_new(config) ==
    [config |-> config,
     samples_per_symbol |-> SamplesIn(config, config.symbol_duration),
     fft_size |-> next_power_of_two(SamplesIn(config, config.symbol_duration))]

\* s[lo] + ... + s[hi], split in halves.
RECURSIVE SumRange(_, _, _)
SumRange(s, lo, hi) ==
    IF lo > hi THEN 0
    ELSE IF lo = hi THEN s[lo]
    ELSE SumRange(s, lo, (lo + hi) \div 2) + SumRange(s, (lo + hi) \div 2 + 1, hi)

\* fft.process: bin k of the forward transform of the samples, padded with
\* zeros to fft_size; the padding adds nothing to the sums.
FftBin(samples, k, fft_size) ==
    [re |-> SumRange([n \in 1..Len(samples) |->
                         samples[n] * CosTurn((k * (n - 1)) % fft_size, fft_size)],
                     1, Len(samples)),
     im |-> 0 - SumRange([n \in 1..Len(samples) |->
                             samples[n] * SinTurn((k * (n - 1)) % fft_size, fft_size)],
                         1, Len(samples))]

norm_sqr(bin) ==
    (bin.re \div 4096) * (bin.re \div 4096) + (bin.im \div 4096) * (bin.im \div 4096)

\* (frequency * fft_size as f32 / sample_rate as f32) as usize
FreqBin(demodulator, frequency) ==
    (frequency * demodulator.fft_size) \div demodulator.config.sample_rate

search_range == 3

\* bin.saturating_sub(search_range) ..= (bin + search_range).min(len - 1)
SearchBins(demodulator, bin) ==
    { k \in (bin - search_range)..(bin + search_range) :
        k >= 0 /\ k <= demodulator.fft_size - 1 }

\* .map(norm_sqr).fold(0.0, f32::max) over the bins searched.
MaxPower(samples, fft_size, bins) ==
    LET powers == {0} \cup { norm_sqr(FftBin(samples, k, fft_size)) : k \in bins }
    IN CHOOSE p \in powers : \A q \in powers : q <= p

\* 0.001, the power below which a symbol counts as silent, in the unit of
\* norm_sqr: 0.001 * (1000000 / 4096)^2 = 59.6.
NoSignalPower == 60

SymbolDecision(power_0_max, power_1_max) ==
    IF power_0_max < NoSignalPower /\ power_1_max < NoSignalPower
    THEN Err("Decoding")
    ELSE Ok(power_1_max > power_0_max)

decode_symbol(demodulator, samples) ==
    SymbolDecision(
        MaxPower(samples, demodulator.fft_size,
                 SearchBins(demodulator, FreqBin(demodulator, demodulator.config.freq_0))),
        MaxPower(samples, demodulator.fft_size,
                 SearchBins(demodulator, FreqBin(demodulator, demodulator.config.freq_1))))

\* A configuration with the two frequencies 200 Hz apart. With symbols of
\* 441 samples (fft_size 512) the bins nearest 18000 Hz and 18200 Hz are
\* 209 and 211, two bins apart.
NarrowConfig ==
    [sample_rate |-> 44100,
     freq_0 |-> 18000,
     freq_1 |-> 18200,
     symbol_duration |-> SYMBOL_DURATION,
     ramp_duration |-> RAMP_DURATION]

ModemConfigs == {ModulationConfig_default, NarrowConfig}

\* A signal is kept piece by piece. A piece is a symbol, named by the
\* arguments generate_symbol was called with, and the number of its samples
\* that are there: all of them, or fewer for a symbol cut short. A symbol
\* of frequency 0 is silence: all its samples are 0.
Silence == [frequency |-> 0, is_first |-> FALSE, is_last |-> FALSE]

\* The symbols a signal can hold: those encode_bits makes, and silence.
Symbols(config) ==
    { [frequency |-> f, is_first |-> a, is_last |-> b] :
        f \in {config.freq_0, config.freq_1}, a \in BOOLEAN, b \in BOOLEAN }
    \cup {Silence}

\* The samples generate_symbol returns for each symbol, computed once for
\* each configuration.
SymbolSamples ==
    [config \in ModemConfigs |->
        [symbol \in Symbols(config) |->
            generate_symbol(FskModulator_new(config), symbol.frequency,
                            symbol.is_first, symbol.is_last)]]

\* What decode_symbol returns for the samples of each symbol.
SymbolDecisions ==
    [config \in ModemConfigs |->
        [symbol \in Symbols(config) |->
            decode_symbol(FskDemodulator_new(config), SymbolSamples[config][symbol])]]

\* The piece generate_symbol(frequency, is_first, is_last) adds to a signal.
Piece(modulator, symbol) ==
    [symbol |-> symbol, length |-> Len(SymbolSamples[modulator.config][symbol])]

encode_bits(modulator, bits) ==
    [i \in 1..Len(bits) |->
        Piece(modulator,
              [frequency |-> IF bits[i] THEN modulator.config.freq_1
                             ELSE modulator.config.freq_0,
               is_first |-> i = 1,
               is_last |-> i = Len(bits)])]

\* (byte >> i) & 1 == 1 for i = 7, ..., 0, byte after byte.
BitsOfBytes(data) ==
    [j \in 1..(8 * Len(data)) |->
        (data[(j - 1) \div 8 + 1] \div (2 ^ (7 - ((j - 1) % 8)))) % 2 = 1]

encode_bytes(modulator, data) == encode_bits(modulator, BitsOfBytes(data))

\* samples.len(): the samples of all the pieces of a signal.
SampleCount(samples) ==
    SumRange([i \in 1..Len(samples) |-> samples[i].length], 1, Len(samples))

\* The signals of the model are whole symbols, followed by at most one
\* symbol cut short: when the length is a multiple of the symbol length
\* every window of samples_per_symbol samples is one piece.
decode_samples(demodulator, samples) ==
    IF SampleCount(samples) % demodulator.samples_per_symbol # 0
    THEN Err("Decoding")
    ELSE IF \E i \in 1..Len(samples) :
                ~SymbolDecisions[demodulator.config][samples[i].symbol].ok
    THEN Err("Decoding")
    ELSE Ok([i \in 1..Len(samples) |->
                SymbolDecisions[demodulator.config][samples[i].symbol].val])

\* byte |= 1 << (7 - i) for the set bits of each chunk of eight.
BytesOfBits(bits) ==
    [j \in 1..(Len(bits) \div 8) |->
        SumRange([i \in 1..8 |-> IF bits[8 * (j - 1) + i] THEN 2 ^ (8 - i) ELSE 0],
                 1, 8)]

\* A faulty end of decode_bytes, which drops the bits left over after the
\* last whole byte: the error cases must tell it from the code's.
DecodedBytesDroppingBits(bits) ==
    IF ~bits.ok THEN bits ELSE Ok(BytesOfBits(bits.val))

DecodedBytes(bits) ==
    IF ~bits.ok THEN bits
    ELSE IF Len(bits.val) % 8 # 0 THEN Err("Decoding")
    ELSE Ok(BytesOfBits(bits.val))

decode_bytes(demodulator, samples) ==
    DecodedBytes(decode_samples(demodulator, samples))

\* ------------------------------------------------------------------------
\* Bytes through the modem
\* ------------------------------------------------------------------------

MaxModemBytes == 2
ModemBytes == {0, 1, 72, 105, 128, 170, 255}

RECURSIVE BytesUpTo(_)
BytesUpTo(n) ==
    IF n = 0 THEN {<<>>}
    ELSE BytesUpTo(n - 1)
         \cup { Append(d, b) : d \in { e \in BytesUpTo(n - 1) : Len(e) = n - 1 },
                               b \in ModemBytes }

\* 1024 bytes, all different from their neighbours.
LongestData == [i \in 1..MAX_MESSAGE_LENGTH |-> (7 * i) % 256]

ModemData == BytesUpTo(MaxModemBytes) \cup {LongestData}

EncodeBytes(config, data) ==
    /\ last = Idle
    /\ last' = [op |-> "encode_bytes", config |-> config, data |-> data,
                result |-> encode_bytes(FskModulator_new(config), data)]
    /\ UNCHANGED <<encoderVars, streamVars, listen>>

DecodeBytes ==
    /\ last.op = "encode_bytes"
    /\ last' = [op |-> "decode_bytes", config |-> last.config, data |-> last.data,
                samples |-> last.result,
                result |-> decode_bytes(FskDemodulator_new(last.config), last.result)]
    /\ UNCHANGED <<encoderVars, streamVars, listen>>

NextModem ==
    \/ \E config \in ModemConfigs, data \in ModemData : EncodeBytes(config, data)
    \/ DecodeBytes

SpecModem == InitStream /\ [][NextModem]_vars

\* C8: decode_bytes of encode_bytes of d, the modulator and the demodulator
\* built from the same configuration, returns d, for any d of at most 1024
\* bytes.
C8_ByteRoundTrip ==
    last.op = "decode_bytes" => last.result = Ok(last.data)

\* What holds in the code: with the default configuration the bytes come
\* back, and with any configuration the two bit/byte conversions are
\* inverse.
C8_DefaultRoundTrip ==
    /\ last.op = "decode_bytes" /\ last.config = ModulationConfig_default
           => last.result = Ok(last.data)
    /\ last.op = "encode_bytes"
           => BytesOfBits(BitsOfBytes(last.data)) = last.data

\* With the two frequencies two bins apart the byte 0xFF came back as 0x00.
C8_OnesReadAsZeros ==
    /\ last.op = "decode_bytes" /\ last.config = NarrowConfig
    /\ last.data = <<255>>
    /\ last.result = Ok(<<0>>)

\* The 1024 bytes came back with the default configuration.
C8_LongestDataBack ==
    /\ last.op = "decode_bytes" /\ last.config = ModulationConfig_default
    /\ last.data = LongestData
    /\ last.result = Ok(LongestData)

\* ---- signals into and out of the modem ------------------------------------

MaxSignalBits == 17

\* The numbers of bits encode_bits is given: none, parts of a byte, whole
\* bytes, and a bit more.
SignalBitCounts == {0, 1, 7, 8, 9, 16, MaxSignalBits}

\* Bits that alternate, and bits of which every third is set.
SignalBits == UNION { {[i \in 1..n |-> i % 2 = 1], [i \in 1..n |-> i % 3 = 0]} :
                      n \in SignalBitCounts }

SignalData == {<<>>, <<72, 105>>}

\* A call of modulator.encode_bits(bits).
EncodeBits(config, bits) ==
    /\ last = Idle
    /\ last' = [op |-> "encode_bits", config |-> config, bits |-> bits,
                result |-> encode_bits(FskModulator_new(config), bits)]
    /\ UNCHANGED <<encoderVars, streamVars, listen>>

\* A symbol cut short: the first `length` samples of a symbol of freq_0.
CutSymbol(config, length) ==
    [symbol |-> [frequency |-> config.freq_0, is_first |-> FALSE, is_last |-> FALSE],
     length |-> length]

\* The signal just made reaches the receiver with symbol number `silent`
\* (0: none) replaced by silence and with `extra` more samples (0: none)
\* behind it.
Hear(silent, extra) ==
    /\ last.op \in {"encode_bits", "encode_bytes"}
    /\ silent \in 0..Len(last.result)
    /\ extra \in 0..(FskDemodulator_new(last.config).samples_per_symbol - 1)
    /\ last' = [op |-> "heard", config |-> last.config,
                samples |-> (IF silent = 0 THEN last.result
                             ELSE [last.result EXCEPT ![silent].symbol = Silence])
                            \o (IF extra = 0 THEN <<>>
                                ELSE <<CutSymbol(last.config, extra)>>)]
    /\ UNCHANGED <<encoderVars, streamVars, listen>>

\* A call of demodulator.decode_bytes(samples) with the signal heard.
DecodeHeard ==
    /\ last.op = "heard"
    /\ last' = [op |-> "decode_bytes", config |-> last.config,
                samples |-> last.samples,
                result |-> decode_bytes(FskDemodulator_new(last.config), last.samples)]
    /\ UNCHANGED <<encoderVars, streamVars, listen>>

NextSignal ==
    \/ \E config \in ModemConfigs, bits \in SignalBits : EncodeBits(config, bits)
    \/ \E config \in ModemConfigs, data \in SignalData : EncodeBytes(config, data)
    \/ \E silent \in {0, 1, 16}, extra \in {0, 1, 440} : Hear(silent, extra)
    \/ DecodeHeard

SpecSignal == InitStream /\ [][NextSignal]_vars

\* The signal decode_bytes was given holds whole symbols only.
WholeSymbols(samples, samples_per_symbol) ==
    \A i \in 1..Len(samples) : samples[i].length = samples_per_symbol

\* C13: decode_bytes fails with a Decoding error when the number of samples
\* is not a multiple of samples_per_symbol, and when the number of symbols
\* is not a multiple of 8; no samples give no bytes and no error; on
\* success there are samples / samples_per_symbol / 8 bytes; a symbol that
\* fails (silence) makes the call fail, with nothing returned.
C13_DecodeBytesErrors ==
    last.op = "decode_bytes" =>
        LET n   == SampleCount(last.samples)
            sps == (last.config.sample_rate * last.config.symbol_duration) \div 1000
        IN  /\ n % sps # 0 => last.result = Err("Decoding")
            /\ (n % sps = 0 /\ (n \div sps) % 8 # 0) => last.result = Err("Decoding")
            /\ n = 0 => last.result = Ok(<<>>)
            /\ last.result.ok => Len(last.result.val) = (n \div sps) \div 8
            /\ (WholeSymbols(last.samples, sps)
                    /\ \E i \in 1..Len(last.samples) : last.samples[i].symbol = Silence)
                   => last.result = Err("Decoding")

\* Sixteen whole symbols, the last of them silent: the call failed.
C13_Witness ==
    /\ last.op = "decode_bytes"
    /\ Len(last.samples) = 16
    /\ SampleCount(last.samples) = 16 * 441
    /\ last.samples[16].symbol = Silence
    /\ \A i \in 1..15 : last.samples[i].symbol # Silence
    /\ last.result = Err("Decoding")

\* C14: encode_bits returns |b| * samples_per_symbol samples and
\* encode_bytes 8 * |d| * samples_per_symbol samples, the empty input
\* included.
C14_ModulatorLength ==
    LET sps == (last.config.sample_rate * last.config.symbol_duration) \div 1000
    IN  /\ last.op = "encode_bits" =>
               SampleCount(last.result) = Len(last.bits) * sps
        /\ last.op = "encode_bytes" =>
               SampleCount(last.result) = 8 * Len(last.data) * sps

\* Two bytes with the default configuration have become 7056 samples.
C14_Witness ==
    /\ last.op = "encode_bytes"
    /\ last.config = ModulationConfig_default
    /\ Len(last.data) = 2
    /\ SampleCount(last.result) = 7056

\* ------------------------------------------------------------------------
\* The signal detector (src/src/modulation.rs, detect_signal_start)
\* ------------------------------------------------------------------------
\* Samples are whole thousandths and the threshold whole tenths, so that
\* energy > max_energy * threshold is 10 * energy > max_energy * threshold.

window_size == 512

\* samples.windows(window_size): the number of windows; window i (from 0)
\* holds samples[i], ..., samples[i + 511].
WindowCount(samples) ==
    IF Len(samples) < window_size THEN 0 ELSE Len(samples) - window_size + 1

\* window.iter().map(|&s| s * s).sum()
WindowEnergy(samples, i) ==
    SumRange([k \in 1..window_size |-> samples[i + k] * samples[i + k]],
             1, window_size)

\* The first loop: max_energy, starting from 0.0.
MaxEnergy(samples) ==
    LET energies == {0} \cup { WindowEnergy(samples, i) :
                                 i \in 0..(WindowCount(samples) - 1) }
    IN  CHOOSE e \in energies : \A f \in energies : f <= e

\* A faulty second loop, which also takes a window whose energy equals the
\* threshold: the detector must tell it from the code's.
FirstAtOrAbove(samples, bound) ==
    IF \E i \in 0..(WindowCount(samples) - 1) : 10 * WindowEnergy(samples, i) >= bound
    THEN Some(CHOOSE i \in 0..(WindowCount(samples) - 1) :
                  /\ 10 * WindowEnergy(samples, i) >= bound
                  /\ \A j \in 0..(i - 1) : 10 * WindowEnergy(samples, j) < bound)
    ELSE None

\* The second loop: Some(i) for the first window whose energy is above the
\* detection threshold (bound is ten times it), or None.
FirstAbove(samples, bound) ==
    IF \E i \in 0..(WindowCount(samples) - 1) : 10 * WindowEnergy(samples, i) > bound
    THEN Some(CHOOSE i \in 0..(WindowCount(samples) - 1) :
                  /\ 10 * WindowEnergy(samples, i) > bound
                  /\ \A j \in 0..(i - 1) : 10 * WindowEnergy(samples, j) <= bound)
    ELSE None

detect_signal_start(samples, threshold) ==
    FirstAbove(samples, MaxEnergy(samples) * threshold)

\* ---- buffers given to the detector ----------------------------------------

MaxLead == 60

\* A buffer of n samples: `lead` samples of the value before, then samples
\* of the value after.
Buffer(n, lead, before, after) ==
    [i \in 1..n |-> IF i <= lead THEN before ELSE after]

DetectorBuffers ==
    { Buffer(n, lead, levels[1], levels[2]) :
        n \in {0, 1, window_size - 1, window_size, window_size + 1,
               window_size + MaxLead + 8},
        lead \in {0, 5, MaxLead},
        levels \in {<<0, 0>>, <<0, 300>>, <<10, 300>>, <<300, 10>>, <<-300, 300>>} }

\* Thresholds of 0, 0.1, 0.5, 0.9 and 1.
DetectorThresholds == {0, 1, 5, 9, 10}

\* A call of detect_signal_start(samples, threshold).
DetectSignalStart(samples, threshold) ==
    /\ last = Idle
    /\ last' = [op |-> "detect_signal_start", samples |-> samples,
                threshold |-> threshold,
                result |-> detect_signal_start(samples, threshold)]
    /\ UNCHANGED <<encoderVars, streamVars, listen>>

NextDetector ==
    \E samples \in DetectorBuffers, threshold \in DetectorThresholds :
        DetectSignalStart(samples, threshold)

SpecDetector == InitStream /\ [][NextDetector]_vars

\* The energy of the 512 samples from index i (counted from 0) on.
EnergyFrom(samples, i) ==
    SumRange([k \in 1..Len(samples) |-> samples[k] * samples[k]], i + 1, i + 512)

\* The largest energy of a window of 512 samples, 0 without a window.
LargestEnergy(samples) ==
    LET energies == {0} \cup { EnergyFrom(samples, i) : i \in 0..(Len(samples) - 512) }
    IN  CHOOSE m \in energies : \A e \in energies : e <= m

\* Whether the window at index i has an energy above threshold (in tenths)
\* times the largest energy.
Detectable(samples, threshold, largest, i) ==
    10 * EnergyFrom(samples, i) > largest * threshold

\* C15: detect_signal_start returns the smallest index whose window of 512
\* samples has an energy above threshold times the largest energy of a
\* window, and none when there is no such window, as for every buffer of
\* fewer than 512 samples.
C15_DetectSignalStart ==
    last.op = "detect_signal_start" =>
        LET largest == LargestEnergy(last.samples)
        IN  /\ last.result.some =>
                   /\ last.result.res \in 0..(Len(last.samples) - 512)
                   /\ Detectable(last.samples, last.threshold, largest, last.result.res)
                   /\ \A j \in 0..(last.result.res - 1) :
                          ~Detectable(last.samples, last.threshold, largest, j)
            /\ ~last.result.some =>
                   \A j \in 0..(Len(last.samples) - 512) :
                       ~Detectable(last.samples, last.threshold, largest, j)
            /\ Len(last.samples) < 512 => ~last.result.some

\* The signal starts after 60 quiet samples; with a threshold of 0.9 the
\* window found is the ninth after the first of the buffer.
C15_Witness ==
    /\ last.op = "detect_signal_start"
    /\ Len(last.samples) = 580
    /\ last.threshold = 9
    /\ last.result = Some(9)

\* ---------------------------------------------------------------------
\* Start-up validation (src/src/main.rs, src/src/cli.rs)
\* ---------------------------------------------------------------------

\* validate_frequency: a frequency in Hz is accepted within 100..=24000.
validate_frequency(freq) ==
    IF ~(freq >= 100 /\ freq <= 24000) THEN Err("Frequency") ELSE Ok(freq)

\* validate_sample_rate: a rate in Hz is accepted within 8000..=192000.
validate_sample_rate(rate) ==
    IF ~(rate >= 8000 /\ rate <= 192000) THEN Err("SampleRate") ELSE Ok(rate)

\* The checks of main before a component is built: the two frequencies,
\* the sample rate, then the order of the frequencies; each failure is a
\* Config error.
ValidateSettings(settings) ==
    IF ~validate_frequency(settings.freq_0).ok THEN Err("Config")
    ELSE IF ~validate_frequency(settings.freq_1).ok THEN Err("Config")
    ELSE IF ~validate_sample_rate(settings.sample_rate).ok THEN Err("Config")
    ELSE IF settings.freq_0 >= settings.freq_1 THEN Err("Config")
    ELSE Ok(settings)

\* UshApp::new: the modulation configuration built from the settings.
UshApp_new(settings) ==
    [sample_rate     |-> settings.sample_rate,
     freq_0          |-> settings.freq_0,
     freq_1          |-> settings.freq_1,
     symbol_duration |-> SYMBOL_DURATION,
     ramp_duration   |-> RAMP_DURATION]

StartupRates == {7999, 8000, 36000, 44100, 48000, 192000, 192001}

StartupFrequencies == {99, 100, 4000, 18000, 20000, 24000, 24001}

StartupSettings ==
    { [sample_rate |-> r, freq_0 |-> f0, freq_1 |-> f1] :
        r \in StartupRates, f0 \in StartupFrequencies, f1 \in StartupFrequencies }

\* main: validate the settings; build the components only when they pass.
Main(settings) ==
    /\ last = Idle
    /\ last' = [op       |-> "main",
                settings |-> settings,
                result   |-> ValidateSettings(settings),
                built    |-> IF ValidateSettings(settings).ok
                             THEN Some(UshApp_new(settings))
                             ELSE None]
    /\ UNCHANGED <<encoder, base, calls, decoder, wire, sent, delivered, damage, listen>>

NextStartup == \E settings \in StartupSettings : Main(settings)

SpecStartup == InitStream /\ [][NextStartup]_vars

\* Whether a frequency is below half the sample rate.
BelowNyquist(freq, sample_rate) == 2 * freq < sample_rate

\* C16: start-up validation rejects with a Config error, before any
\* component is built, every setting with freq_0 >= freq_1, a frequency
\* outside 100-24000 Hz, a sample rate outside 8000-192000 Hz, or a
\* frequency not below half the sample rate.
C16_ValidationRejects ==
    last.op = "main" =>
      ( ( \/ last.settings.freq_0 >= last.settings.freq_1
          \/ last.settings.freq_0 < 100 \/ last.settings.freq_0 > 24000
          \/ last.settings.freq_1 < 100 \/ last.settings.freq_1 > 24000
          \/ last.settings.sample_rate < 8000 \/ last.settings.sample_rate > 192000
          \/ ~BelowNyquist(last.settings.freq_0, last.settings.sample_rate)
          \/ ~BelowNyquist(last.settings.freq_1, last.settings.sample_rate) )
        => (last.result = Err("Config") /\ last.built = None) )

\* What the code does reject: wrong order, a frequency or a sample rate
\* out of range; and nothing else.
C16_RangesAndOrderRejected ==
    last.op = "main" =>
        ( ( \/ last.settings.freq_0 >= last.settings.freq_1
            \/ last.settings.freq_0 < 100 \/ last.settings.freq_0 > 24000
            \/ last.settings.freq_1 < 100 \/ last.settings.freq_1 > 24000
            \/ last.settings.sample_rate < 8000 \/ last.settings.sample_rate > 192000 )
          <=> (last.result = Err("Config") /\ last.built = None) )

\* A sample rate of 8000 Hz with the default carriers of 18000 and 20000 Hz,
\* far above 4000 Hz, passes and the components are built.
C16_AboveNyquistAccepted ==
    /\ last.op = "main"
    /\ last.settings = [sample_rate |-> 8000, freq_0 |-> 18000, freq_1 |-> 20000]
    /\ last.result.ok
    /\ last.built.some

\* ---------------------------------------------------------------------
\* Constructing the modem (src/src/modulation.rs)
\* ---------------------------------------------------------------------

ConstructorRates == {4000, 44100, 48000}

ConstructorCarriers == {<<1000, 1500>>, <<18000, 18050>>, <<18000, 18200>>, <<18000, 20000>>}

ConstructorSymbolDurations == {1, SYMBOL_DURATION, 20}

ConstructorRampDurations == {0, RAMP_DURATION, 5, 6}

ConstructorConfigs ==
    { [sample_rate     |-> r,
       freq_0          |-> c[1],
       freq_1          |-> c[2],
       symbol_duration |-> s,
       ramp_duration   |-> a] :
        r \in ConstructorRates, c \in ConstructorCarriers,
        s \in ConstructorSymbolDurations, a \in ConstructorRampDurations }

\* FskModulator::new returns Self: whatever the configuration, the caller
\* has a modulator.
NewModulator(config) ==
    /\ last = Idle
    /\ last' = [op     |-> "FskModulator::new",
                config |-> config,
                result |-> Ok(FskModulator_new(config))]
    /\ UNCHANGED <<encoder, base, calls, decoder, wire, sent, delivered, damage, listen>>

\* FskDemodulator::new returns Self as well.
NewDemodulator(config) ==
    /\ last = Idle
    /\ last' = [op     |-> "FskDemodulator::new",
                config |-> config,
                result |-> Ok(FskDemodulator_new(config))]
    /\ UNCHANGED <<encoder, base, calls, decoder, wire, sent, delivered, damage, listen>>

NextConstructor ==
    \E config \in ConstructorConfigs :
        \/ NewModulator(config)
        \/ NewDemodulator(config)

SpecConstructor == InitStream /\ [][NextConstructor]_vars

\* The bin of the transform nearest a frequency: frequency * fft_size /
\* sample_rate rounded to the nearest integer.
NearestBin(config, frequency) ==
    LET fft_size == next_power_of_two(SamplesIn(config, config.symbol_duration))
    IN  (2 * frequency * fft_size + config.sample_rate) \div (2 * config.sample_rate)

\* Whether a configuration violates a derived invariant: fewer than 8
\* samples in a symbol, a ramp not below half a symbol, or the bins
\* nearest the two frequencies fewer than 2 apart.
ViolatesDerivedInvariants(config) ==
    \/ SamplesIn(config, config.symbol_duration) < 8
    \/ 2 * SamplesIn(config, config.ramp_duration) >= SamplesIn(config, config.symbol_duration)
    \/ NearestBin(config, config.freq_1) - NearestBin(config, config.freq_0) < 2

\* C17: constructing a modulator or a demodulator fails when the
\* configuration violates the derived invariants (samples_per_symbol < 8,
\* ramp_samples not below half a symbol, or the bins nearest freq_0 and
\* freq_1 fewer than 2 apart).
C17_ConstructionFails ==
    last.op \in {"FskModulator::new", "FskDemodulator::new"} =>
        (ViolatesDerivedInvariants(last.config) => ~last.result.ok)

\* What the constructors do: they derive the sample counts and the size of
\* the transform from any configuration and never fail.
C17_ConstructionNeverFails ==
    /\ last.op = "FskModulator::new" =>
           /\ last.result.ok
           /\ last.result.val.samples_per_symbol
                  = (last.config.sample_rate * last.config.symbol_duration) \div 1000
           /\ last.result.val.ramp_samples
                  = (last.config.sample_rate * last.config.ramp_duration) \div 1000
    /\ last.op = "FskDemodulator::new" =>
           /\ last.result.ok
           /\ last.result.val.fft_size >= last.result.val.samples_per_symbol
           /\ last.result.val.fft_size < 2 * last.result.val.samples_per_symbol + 2

\* A demodulator is built for carriers of 18000 and 18050 Hz, whose nearest
\* bins of the 512 are 209 and 210.
C17_CloseBinsBuilt ==
    /\ last.op = "FskDemodulator::new"
    /\ last.config = [sample_rate |-> 44100, freq_0 |-> 18000, freq_1 |-> 18050,
                      symbol_duration |-> 10, ramp_duration |-> 2]
    /\ NearestBin(last.config, 18000) = 209
    /\ NearestBin(last.config, 18050) = 210
    /\ last.result.ok
    /\ last.result.val.fft_size = 512

\* A modulator is built with 4 samples in a symbol and a ramp of 8.
C17_ShortSymbolBuilt ==
    /\ last.op = "FskModulator::new"
    /\ last.result.ok
    /\ last.result.val.samples_per_symbol = 4
    /\ last.result.val.ramp_samples = 8

\* ---------------------------------------------------------------------
\* Frames of another encoder (src/src/protocol.rs)
\* ---------------------------------------------------------------------

\* A message whose header announces payload_length bytes over the payload
\* given, with the checksum calculate_checksum gives for the two.
ForeignMessage(message_type, payload_length, payload) ==
    LET header == MessageHeader(PROTOCOL_VERSION, message_type, ToBytes(7, 4),
                                ToBytes(1700000000, 8), payload_length)
    IN  Message(header, payload, calculate_checksum(header, payload))

\* A header that announces 5 bytes over a payload of 3.
OverstatedMessage == ForeignMessage("File", 5, <<1, 2, 3>>)

\* A header that announces no payload over a payload of 2 bytes.
UnderstatedMessage == ForeignMessage("Text", 0, <<72, 105>>)

\* A payload of MAX_MESSAGE_LENGTH + 1 bytes, each of one digit.
OversizeMessage ==
    ForeignMessage("File", MAX_MESSAGE_LENGTH + 1, [i \in 1..(MAX_MESSAGE_LENGTH + 1) |-> 1])

ForeignMessages ==
    {HelloMessage, ForgedMessage, OverstatedMessage, UnderstatedMessage, OversizeMessage}

\* Up to MaxFrames frames of another encoder go onto the stream, then all of
\* it is fed in one feed_data call.
NextForeign ==
    \/ \E message \in ForeignMessages :
           /\ Len(sent) < MaxFrames
           /\ delivered = <<>> /\ decoder = ProtocolDecoder_new
           /\ last.op # "feed_data"
           /\ SendMessage(message)
    \/ wire # <<>> /\ Feed(Len(wire))

SpecForeign == InitStream /\ [][NextForeign]_vars

\* C18: every message feed_data returns has a payload of
\* header.payload_length bytes, of at most 1024 bytes, and a checksum equal
\* to the CRC-32 of the serialized header followed by the payload, whatever
\* bytes were fed.
C18_MessageInvariants ==
    last.op = "feed_data" =>
        \A i \in 1..Len(last.result) :
            /\ Len(last.result[i].payload) = last.result[i].header.payload_length
            /\ Len(last.result[i].payload) <= MAX_MESSAGE_LENGTH
            /\ last.result[i].checksum
                   = calculate_checksum(last.result[i].header, last.result[i].payload)

\* What feed_data does ensure: the checksum, and with it and the limit on
\* the length of a body a payload of at most 1024 bytes; the messages
\* returned are those sent with a matching checksum and a body within the
\* limit, whatever length their header announces.
C18_ChecksumAndSizeOnly ==
    last.op = "feed_data" =>
        /\ \A i \in 1..Len(last.result) :
               /\ Len(last.result[i].payload) <= MAX_MESSAGE_LENGTH
               /\ last.result[i].checksum
                      = calculate_checksum(last.result[i].header, last.result[i].payload)
        /\ last.result
               = SelectSeq(SentMessages(Len(sent)),
                           LAMBDA m : verify_checksum(m) /\ m # OversizeMessage)

\* A message whose header announces 5 bytes came back with a payload of 3.
C18_LengthMismatchDelivered ==
    /\ last.op = "feed_data"
    /\ Len(last.result) > 0
    /\ last.result[1] = OverstatedMessage
    /\ last.result[1].header.payload_length = 5
    /\ Len(last.result[1].payload) = 3

\* ---------------------------------------------------------------------
\* Frames with another end, and bodies that do not deserialize
\* ---------------------------------------------------------------------

\* The bytes of a frame around any body, with `tail` where the end delimiter
\* stands: the layout encode_message writes.
Frame(body, tail) ==
    PREAMBLE \o PREAMBLE \o START_DELIMITER \o ToBytes(Len(body) % 65536, 2)
    \o body \o tail

\* Another sender puts the frame of a message on the stream, with `tail` for
\* its end delimiter.
SendWithTail(message, tail) ==
    LET frame == Frame(SerializeMessage(message), tail)
    IN  /\ wire' = wire \o frame
        /\ sent' = Append(sent, [message |-> message, valid |-> TRUE,
                                 tail |-> tail, size |-> Len(frame)])
        /\ last' = [op |-> "frame", message |-> message, tail |-> tail]
        /\ UNCHANGED <<encoderVars, decoder, delivered, damage, listen>>

\* Another sender puts a frame on the stream whose body is no message.
SendUndecodable(body) ==
    LET frame == Frame(body, END_DELIMITER)
    IN  /\ wire' = wire \o frame
        /\ sent' = Append(sent, [message |-> body, valid |-> FALSE,
                                 tail |-> END_DELIMITER, size |-> Len(frame)])
        /\ last' = [op |-> "frame", body |-> body, tail |-> END_DELIMITER]
        /\ UNCHANGED <<encoderVars, decoder, delivered, damage, listen>>

\* What stands for the end delimiter: the delimiter, nothing, its first
\* byte alone, or two bytes one of which is another.
Tails == {END_DELIMITER, <<>>, <<126>>, <<126, 0>>, <<0, 126>>}

AdvisoryMessages ==
    {HelloMessage,
     new_ack(ToBytes(42, 4), ToBytes(1700000000, 8)).val,
     new_ping(<<255, 255, 255, 255>>, ToBytes(1700000000, 8)).val}

\* One or two frames go onto the stream; then either all of it is fed in
\* one feed_data call, or first all up to the end of the last body and then
\* the rest.
NextAdvisory ==
    \/ \E message \in AdvisoryMessages, tail \in Tails :
           /\ Len(sent) < 2
           /\ decoder = ProtocolDecoder_new
           /\ SendWithTail(message, tail)
    \/ wire # <<>> /\ Feed(Len(wire))
    \/ /\ decoder = ProtocolDecoder_new /\ sent # <<>>
       /\ sent[Len(sent)].tail # <<>>
       /\ Feed(Len(wire) - Len(sent[Len(sent)].tail))

SpecAdvisory == InitStream /\ [][NextAdvisory]_vars

\* The bytes left of what stood for an end delimiter when it was in the
\* buffer with the body: nothing of the delimiter, all of anything else.
Unconsumed(tail) == IF tail = END_DELIMITER THEN <<>> ELSE tail

\* C19: the end delimiter is advisory. Once the body is buffered and
\* deserializes the message is delivered, whether or not 7E 7E follows; the
\* two bytes are consumed only when they are there and are 7E 7E, otherwise
\* nothing after the body is consumed; so a frame without end delimiter
\* followed directly by a complete frame yields both messages.
C19_EndDelimiterAdvisory ==
    last.op = "feed_data" =>
        /\ delivered = SentMessages(Len(sent))
        /\ decoder.state = "WaitingForPreamble"
        /\ (last.fresh /\ wire = <<>>) =>
               /\ last.result = SentMessages(Len(sent))
               /\ decoder.buffer = Unconsumed(sent[Len(sent)].tail)
        /\ (last.fresh /\ wire # <<>>) =>
               /\ last.result = SentMessages(Len(sent))
               /\ decoder.buffer = <<>>
        /\ ~last.fresh =>
               /\ last.result = <<>>
               /\ decoder.buffer = sent[Len(sent)].tail

\* A frame without end delimiter and a complete frame after it were fed in
\* one call and both messages came back.
C19_Witness ==
    /\ last.op = "feed_data" /\ last.fresh /\ wire = <<>>
    /\ Len(sent) = 2
    /\ sent[1].tail = <<>>
    /\ sent[2].tail = END_DELIMITER
    /\ last.result = <<sent[1].message, sent[2].message>>

\* Bodies serde_json refuses: no byte at all, an object without the fields,
\* a message cut one byte short, a message with a byte after it, and a
\* whole frame.
UndecodableBodies ==
    {<<>>,
     <<123, 125>>,
     SubSeq(SerializeMessage(HelloMessage), 1, Len(SerializeMessage(HelloMessage)) - 1),
     SerializeMessage(HelloMessage) \o <<120>>,
     encode_message(HelloMessage).val}

UndecodableMessages ==
    {HelloMessage, new_ping(<<255, 255, 255, 255>>, ToBytes(1700000000, 8)).val}

\* Up to MaxFrames frames go onto the stream, with good and bad bodies, then
\* all of it is fed in one feed_data call.
NextUndecodable ==
    \/ \E body \in UndecodableBodies :
           /\ Len(sent) < MaxFrames
           /\ decoder = ProtocolDecoder_new
           /\ SendUndecodable(body)
    \/ \E message \in UndecodableMessages :
           /\ Len(sent) < MaxFrames
           /\ decoder = ProtocolDecoder_new
           /\ SendWithTail(message, END_DELIMITER)
    \/ wire # <<>> /\ Feed(Len(wire))

SpecUndecodable == InitStream /\ [][NextUndecodable]_vars

\* The messages of the frames put on the stream whose body is one.
RECURSIVE ValidMessages(_)
ValidMessages(n) ==
    IF n = 0 THEN <<>>
    ELSE IF sent[n].valid THEN Append(ValidMessages(n - 1), sent[n].message)
    ELSE ValidMessages(n - 1)

\* C20: when the announced body does not deserialize the decoder consumes
\* exactly the announced number of bytes, re-enters WaitingForPreamble and
\* returns no message for the frame; a complete valid frame after it in the
\* same buffer is decoded and returned by the same feed_data call.
C20_UndecodableBody ==
    last.op = "feed_data" =>
        /\ last.result = ValidMessages(Len(sent))
        /\ decoder.state = "WaitingForPreamble"
        /\ decoder.buffer = IF sent[Len(sent)].valid THEN <<>> ELSE END_DELIMITER

\* A body cut short, then a complete frame, fed in one call: the message of
\* the second came back alone.
C20_Witness ==
    /\ last.op = "feed_data"
    /\ Len(sent) = 2
    /\ ~sent[1].valid /\ sent[1].message # <<>>
    /\ sent[2].valid
    /\ last.result = <<sent[2].message>>

\* ---------------------------------------------------------------------
\* The length field (src/src/protocol.rs, ReadingLength)
\* ---------------------------------------------------------------------

\* The lengths a frame announces: around the limit of 2 * 1024, and the
\* largest two bytes can hold.
AnnouncedLengths == {0, 1, 3, 2047, 2048, 2049, 32382, 65535}

\* What follows the length field: nothing, or a few bytes that are no
\* message and hold no preamble.
Rests == {<<>>, <<85>>, <<85, 86>>, <<85, 86, 87, 88, 89>>}

\* Another sender puts a preamble, a start delimiter, a length field and the
\* bytes of `rest` on the stream.
SendHeader(length, rest) ==
    /\ wire' = wire \o PREAMBLE \o PREAMBLE \o START_DELIMITER \o ToBytes(length, 2) \o rest
    /\ sent' = Append(sent, [length |-> length, rest |-> rest,
                             size |-> 2 * Len(PREAMBLE) + Len(START_DELIMITER) + 2 + Len(rest)])
    /\ last' = [op |-> "header", length |-> length, rest |-> rest]
    /\ UNCHANGED <<encoderVars, decoder, delivered, damage, listen>>

\* One such beginning of a frame goes onto the stream; it is fed whole, or
\* first up to the first byte of the length field and then the rest.
NextLength ==
    \/ \E length \in AnnouncedLengths, rest \in Rests :
           sent = <<>> /\ SendHeader(length, rest)
    \/ wire # <<>> /\ Feed(Len(wire))
    \/ /\ decoder = ProtocolDecoder_new /\ sent # <<>>
       /\ Feed(2 * Len(PREAMBLE) + Len(START_DELIMITER) + 1)

SpecLength == InitStream /\ [][NextLength]_vars

\* C21: in ReadingLength, once 2 bytes are there, the decoder reads them as
\* a big-endian length. A length above 2048 makes it drop exactly one byte,
\* re-enter WaitingForPreamble and deliver nothing; otherwise it consumes
\* the 2 bytes and waits in ReadingMessage until that many body bytes are
\* buffered.
C21_ReadingLength ==
    last.op = "feed_data" =>
        /\ delivered = <<>>
        /\ wire # <<>> =>
               \* one byte of the length field is buffered
               /\ decoder.state = "ReadingLength"
               /\ decoder.buffer = <<sent[1].length \div 256>>
        /\ (wire = <<>> /\ sent[1].length > 2 * MAX_MESSAGE_LENGTH) =>
               /\ decoder.state = "WaitingForPreamble"
               /\ decoder.buffer = <<sent[1].length % 256>> \o sent[1].rest
        /\ (wire = <<>> /\ sent[1].length <= 2 * MAX_MESSAGE_LENGTH
                        /\ Len(sent[1].rest) < sent[1].length) =>
               /\ decoder.state = "ReadingMessage"
               /\ decoder.expected_length = sent[1].length
               /\ decoder.buffer = sent[1].rest
        /\ (wire = <<>> /\ sent[1].length <= 2 * MAX_MESSAGE_LENGTH
                        /\ Len(sent[1].rest) >= sent[1].length) =>
               \* the body is there: it is no message
               /\ decoder.state = "WaitingForPreamble"
               /\ decoder.buffer = Drain(sent[1].rest, sent[1].length)

\* A length of 2049 was read: its second byte and what followed are left.
C21_Witness ==
    /\ last.op = "feed_data" /\ wire = <<>>
    /\ sent[1].length = 2049
    /\ decoder.state = "WaitingForPreamble"
    /\ decoder.buffer = <<1, 85, 86>>

\* A length of 2048 was read: the decoder waits for the body.
C21_WaitingForBody ==
    /\ last.op = "feed_data" /\ wire = <<>>
    /\ sent[1].length = 2048
    /\ decoder.state = "ReadingMessage"
    /\ decoder.buffer = <<85, 86>>

\* ---------------------------------------------------------------------
\* The start delimiter (src/src/protocol.rs, WaitingForStart)
\* ---------------------------------------------------------------------

\* The most 0xAA bytes put before a preamble.
MaxRun == 3

\* Two bytes that are no start delimiter.
BadStarts == {<<126, 0>>, <<0, 126>>, <<0, 0>>}

StartRests == {<<>>, <<126>>, <<126, 126, 0, 5>>}

\* Another sender puts `extra` bytes 0xAA, a preamble, the two bytes of
\* `start` and the bytes of `rest` on the stream.
SendRun(extra, start, rest) ==
    /\ wire' = wire \o Repeat(170, extra) \o PREAMBLE \o PREAMBLE \o start \o rest
    /\ sent' = Append(sent, [run |-> extra + 2 * Len(PREAMBLE), start |-> start, rest |-> rest,
                             size |-> extra + 2 * Len(PREAMBLE) + Len(start) + Len(rest)])
    /\ last' = [op |-> "run", extra |-> extra, start |-> start, rest |-> rest]
    /\ UNCHANGED <<encoderVars, decoder, delivered, damage, listen>>

\* What follows the start delimiter in the frame of a message.
AfterStartDelimiter(message) ==
    Drain(encode_message(message).val, 2 * Len(PREAMBLE) + Len(START_DELIMITER))

\* A run of 0xAA bytes goes onto the stream, followed by the rest of a frame
\* or by something else; the first 8, 9 or 10 bytes are fed, or all, and
\* then what is left.
NextStart ==
    \/ \E extra \in 0..MaxRun, message \in AdvisoryMessages :
           sent = <<>> /\ SendRun(extra, START_DELIMITER, AfterStartDelimiter(message))
    \/ \E extra \in 0..MaxRun, start \in BadStarts, rest \in StartRests :
           sent = <<>> /\ SendRun(extra, start, rest)
    \/ wire # <<>> /\ Feed(Len(wire))
    \/ \E n \in {2 * Len(PREAMBLE), 2 * Len(PREAMBLE) + 1, 2 * Len(PREAMBLE) + 2} :
           decoder = ProtocolDecoder_new /\ sent # <<>> /\ Feed(n)

SpecStart == InitStream /\ [][NextStart]_vars

\* The bytes put on the stream, and those of them fed so far.
StreamBytes == Repeat(170, sent[1].run) \o sent[1].start \o sent[1].rest
FedBytes == SubSeq(StreamBytes, 1, Len(StreamBytes) - Len(wire))

\* The last n bytes of s, all of s when it has fewer.
LastBytes(s, n) == IF Len(s) <= n THEN s ELSE SubSeq(s, Len(s) - n + 1, Len(s))

\* C22: in WaitingForStart, with at least 10 bytes buffered whose two bytes
\* at offset 8 are not 7E 7E, the decoder drops exactly one byte and looks
\* for the preamble again. So a run of more than eight 0xAA bytes followed
\* by 7E 7E locks onto its last eight, and whenever the state is
\* WaitingForStart the buffer begins with eight 0xAA bytes.
C22_WaitingForStart ==
    /\ decoder.state = "WaitingForStart" =>
           /\ Len(decoder.buffer) >= 2 * Len(PREAMBLE)
           /\ SubSeq(decoder.buffer, 1, 2 * Len(PREAMBLE)) = PREAMBLE \o PREAMBLE
    /\ last.op = "feed_data" =>
           /\ (Len(FedBytes) <= sent[1].run + 1) =>
                  \* no two bytes after the run yet: all but 9 bytes are dropped
                  /\ decoder.state = "WaitingForStart"
                  /\ decoder.buffer = LastBytes(FedBytes, 2 * Len(PREAMBLE) + 1)
           /\ (Len(FedBytes) >= sent[1].run + 2 /\ sent[1].start # START_DELIMITER) =>
                  \* one byte of the last eight 0xAA is dropped, and no more
                  /\ decoder.state = "WaitingForPreamble"
                  /\ decoder.buffer
                         = Repeat(170, 2 * Len(PREAMBLE) - 1)
                           \o Drain(FedBytes, sent[1].run)
                  /\ delivered = <<>>
           /\ (Len(FedBytes) = sent[1].run + 2 /\ sent[1].start = START_DELIMITER) =>
                  /\ decoder.state = "ReadingLength"
                  /\ decoder.buffer = <<>>
           /\ (wire = <<>> /\ sent[1].start = START_DELIMITER) =>
                  /\ Len(delivered) = 1
                  /\ AfterStartDelimiter(delivered[1]) = sent[1].rest
                  /\ decoder.buffer = <<>>

\* Eleven 0xAA bytes and then the frame from its start delimiter on were
\* fed in one call: the message came back.
C22_Witness ==
    /\ last.op = "feed_data" /\ last.fresh /\ wire = <<>>
    /\ sent[1].run = 2 * Len(PREAMBLE) + MaxRun
    /\ sent[1].start = START_DELIMITER
    /\ Len(last.result) = 1
    /\ last.result[1] = HelloMessage

\* A preamble with 7E 00 after it was fed: seven 0xAA bytes are left.
C22_OneByteDropped ==
    /\ last.op = "feed_data" /\ wire = <<>>
    /\ sent[1].run = 2 * Len(PREAMBLE)
    /\ decoder.state = "WaitingForPreamble"
    /\ decoder.buffer = <<170, 170, 170, 170, 170, 170, 170, 126, 0>>

\* ---------------------------------------------------------------------
\* The length field of encode_message (src/src/protocol.rs)
\* ---------------------------------------------------------------------

\* The most payload bytes of the small messages framed.
MaxPayload == 9

\* The payload of the large message framed: its body has more bytes than
\* two bytes can count.
LargePayload == [i \in 1..33000 |-> 1]

\* A message of the given type and payload; encode_message does not look
\* at the checksum.
SizedMessage(message_type, payload) ==
    Message(MessageHeader(PROTOCOL_VERSION, message_type, ToBytes(7, 4),
                          ToBytes(1700000000, 8), Len(payload) % 65536),
            payload, U32Zero)

LargeMessage == SizedMessage("File", LargePayload)

FrameLengthMessages ==
    { SizedMessage(message_type, Repeat(value, size)) :
        message_type \in MessageType, value \in {1, 10, 200}, size \in 0..MaxPayload }
    \cup {LargeMessage}

\* One encode_message call on a message of any size.
NextFrameLength ==
    \E message \in FrameLengthMessages : last = Idle /\ EncodeMessage(message)

SpecFrameLength == InitStream /\ [][NextFrameLength]_vars

\* C23: for every message encode_message accepts (it returns Ok for any
\* Message, whatever the size of the payload) the 2-byte length field of
\* the frame equals the number of bytes of the serialized body after it.
C23_LengthFieldIsBodyLength ==
    last.op = "encode_message" =>
        /\ last.result.ok
        /\ 256 * last.result.val[11] + last.result.val[12]
               = Len(last.result.val) - 2 * Len(PREAMBLE) - Len(START_DELIMITER)
                     - 2 - Len(END_DELIMITER)
        /\ SubSeq(last.result.val, 13, Len(last.result.val) - Len(END_DELIMITER))
               = SerializeMessage(last.message)

\* What the code writes: the low 16 bits of the length of the body, the
\* length itself while it is below 65536.
C23_LengthFieldLow16 ==
    last.op = "encode_message" =>
        /\ last.result.ok
        /\ 256 * last.result.val[11] + last.result.val[12]
               = Len(SerializeMessage(last.message)) % 65536
        /\ SubSeq(last.result.val, 13, Len(last.result.val) - Len(END_DELIMITER))
               = SerializeMessage(last.message)

\* A body of 66137 bytes was framed with a length field of 601.
C23_LengthFieldWrapped ==
    /\ last.op = "encode_message"
    /\ last.message = LargeMessage
    /\ last.result.ok
    /\ Len(SerializeMessage(last.message)) = 66137
    /\ 256 * last.result.val[11] + last.result.val[12] = 601

\* ---------------------------------------------------------------------
\* The target bins of decode_symbol (src/src/modulation.rs)
\* ---------------------------------------------------------------------

\* The step of decode_symbol that computes freq_0_bin and freq_1_bin, for a
\* demodulator built from the configuration.
TargetBins(config) ==
    /\ last = Idle
    /\ last' = [op         |-> "target_bins",
                config     |-> config,
                fft_size   |-> FskDemodulator_new(config).fft_size,
                freq_0_bin |-> FreqBin(FskDemodulator_new(config), config.freq_0),
                freq_1_bin |-> FreqBin(FskDemodulator_new(config), config.freq_1)]
    /\ UNCHANGED <<encoder, base, calls, decoder, wire, sent, delivered, damage, listen>>

NextBins == \E config \in ConstructorConfigs : TargetBins(config)

SpecBins == InitStream /\ [][NextBins]_vars

\* A configuration the data model allows: freq_0 below freq_1, both at most
\* half the sample rate, and the derived invariants.
ValidConfig(config) ==
    /\ config.freq_0 < config.freq_1
    /\ 2 * config.freq_1 <= config.sample_rate
    /\ ~ViolatesDerivedInvariants(config)

\* C24: the target bins of the demodulator are freq_0 * fft_size /
\* sample_rate and freq_1 * fft_size / sample_rate rounded to the nearest
\* integer, for every valid configuration.
C24_TargetBinsRounded ==
    (last.op = "target_bins" /\ ValidConfig(last.config)) =>
        /\ last.freq_0_bin = NearestBin(last.config, last.config.freq_0)
        /\ last.freq_1_bin = NearestBin(last.config, last.config.freq_1)

\* What the code computes: the quotients with their fractions cut off.
C24_TargetBinsTruncated ==
    last.op = "target_bins" =>
        /\ last.freq_0_bin * last.config.sample_rate <= last.config.freq_0 * last.fft_size
        /\ last.config.freq_0 * last.fft_size < (last.freq_0_bin + 1) * last.config.sample_rate
        /\ last.freq_1_bin * last.config.sample_rate <= last.config.freq_1 * last.fft_size
        /\ last.config.freq_1 * last.fft_size < (last.freq_1_bin + 1) * last.config.sample_rate

\* With the defaults the bin for 18000 Hz is 208, the bin nearest 208.98
\* being 209.
C24_DefaultBinTruncated ==
    /\ last.op = "target_bins"
    /\ last.config = ModulationConfig_default
    /\ ValidConfig(last.config)
    /\ last.fft_size = 512
    /\ last.freq_0_bin = 208
    /\ NearestBin(last.config, last.config.freq_0) = 209

\* ---------------------------------------------------------------------
\* Any stream, cut into any chunks (src/src/protocol.rs)
\* ---------------------------------------------------------------------

AckMessage == new_ack(ToBytes(42, 4), ToBytes(1700000000, 8)).val

\* The frame of the Ack message as another sender may damage it: with a
\* checksum that does not match, without end delimiter, with a body cut
\* short by one byte, and cut off in the middle of its body.
DamagedFrames ==
    {encode_message([AckMessage EXCEPT !.checksum = U32Zero]).val,
     Frame(SerializeMessage(AckMessage), <<>>),
     Frame(SubSeq(SerializeMessage(AckMessage), 1, Len(SerializeMessage(AckMessage)) - 1),
           END_DELIMITER),
     SubSeq(encode_message(AckMessage).val, 1, 50)}

\* Bytes that are no frame: a few bytes, a run of nine 0xAA, and the
\* beginning of a frame that announces 65535 bytes.
NoFrames ==
    {<<85, 126, 126>>,
     Repeat(170, 9),
     PREAMBLE \o PREAMBLE \o START_DELIMITER \o <<255, 255>>}

\* Short streams: the frame of a message after a damaged frame, after bytes
\* that are no frame, or after another frame.
ShortStreams ==
    { before \o encode_message(HelloMessage).val :
        before \in DamagedFrames \cup NoFrames \cup {encode_message(AckMessage).val} }

\* Long streams: a frame, more bytes without a preamble than the buffer is
\* allowed to keep, and a frame.
LongStreams ==
    { encode_message(AckMessage).val \o garbage \o encode_message(HelloMessage).val :
        garbage \in {Repeat(85, BUFFER_LIMIT + 1),
                     Repeat(85, BUFFER_LIMIT - 7) \o Repeat(170, 7)} }

PartitionStreams == ShortStreams \cup LongStreams

\* The most bytes of a stream that is fed in chunks of a few bytes.
ShortStream == 400

SmallChunks == {1, 50}

LargeChunks == {4000, 6000, 20000}

\* The bytes of a stream are there to be fed.
Put(stream) ==
    /\ wire' = stream
    /\ sent' = <<[bytes |-> stream, size |-> Len(stream)]>>
    /\ last' = [op |-> "stream", size |-> Len(stream)]
    /\ UNCHANGED <<encoderVars, decoder, delivered, damage, listen>>

\* A stream is chosen and fed to a fresh decoder chunk by chunk, each chunk
\* of any of the sizes.
NextPartition ==
    \/ \E stream \in PartitionStreams : sent = <<>> /\ Put(stream)
    \/ \E n \in SmallChunks :
           wire # <<>> /\ sent[1].size <= ShortStream /\ Chunk(n)
    \/ \E n \in LargeChunks : wire # <<>> /\ Chunk(n)

SpecPartition == InitStream /\ [][NextPartition]_vars

\* The bytes of the stream fed so far.
FedSoFar == SubSeq(sent[1].bytes, 1, sent[1].size - Len(wire))

C25_LongStreamInChunks ==
    /\ last.op = "feed_data" /\ ~last.fresh
    /\ wire = <<>>
    /\ sent[1].size > BUFFER_LIMIT
    /\ delivered = <<AckMessage, HelloMessage>>

\* ---------------------------------------------------------------------
\* A complete frame after anything (src/src/protocol.rs)
\* ---------------------------------------------------------------------

\* First the beginning of a frame goes onto the stream (a frame cut off
\* after its length field or within its body, or 0xAA bytes with or without
\* a start delimiter after them) and is fed; then the complete frame of a
\* message goes onto the stream and is fed in one call.
NextRecovery ==
    \/ \E length \in AnnouncedLengths, rest \in Rests :
           sent = <<>> /\ SendHeader(length, rest)
    \/ \E extra \in 0..MaxRun, start \in BadStarts \cup {START_DELIMITER, <<>>} :
           sent = <<>> /\ SendRun(extra, start, <<>>)
    \/ wire # <<>> /\ Feed(Len(wire))
    \/ \E message \in AdvisoryMessages :
           Len(sent) = 1 /\ wire = <<>> /\ SendMessage(message)

SpecRecovery == InitStream /\ [][NextRecovery]_vars

\* C26: after a decoder has been fed any byte sequence, feeding one
\* complete valid frame makes feed_data return the message of that frame.
C26_RecoveryFromAnyState ==
    (last.op = "feed_data" /\ Len(sent) = 2) => last.result = <<sent[2].message>>

\* What the code ensures: the message of the frame comes back when the
\* decoder was looking for a preamble or for a start delimiter, or had
\* buffered one byte of a length that the first byte of the frame makes too
\* large; from the other states the frame is read as a length or as a body.
C26_RecoveryWhenSearching ==
    [][ (Len(sent) = 2 /\ wire # <<>> /\ last'.op = "feed_data") =>
            IF \/ decoder.state \in {"WaitingForPreamble", "WaitingForStart"}
               \/ /\ decoder.state = "ReadingLength"
                  /\ Len(decoder.buffer) = 1
                  /\ decoder.buffer[1] * 256 + 170 > 2 * MAX_MESSAGE_LENGTH
            THEN last'.result = <<sent[2].message>>
            ELSE last'.result = <<>> ]_vars

\* A frame was cut off after a length field of 2048; the complete frame fed
\* next is buffered as the body and nothing comes back.
C26_FrameSwallowed ==
    /\ last.op = "feed_data" /\ Len(sent) = 2
    /\ "length" \in DOMAIN sent[1]
    /\ sent[1].length = 2048 /\ sent[1].rest = <<>>
    /\ last.result = <<>>
    /\ decoder.state = "ReadingMessage"
    /\ decoder.buffer = encode_message(sent[2].message).val

\* The stream ended after a preamble and a start delimiter; the first two
\* bytes of the complete frame fed next are read as a length, and nothing
\* comes back.
C26_FrameReadAsLength ==
    /\ last.op = "feed_data" /\ Len(sent) = 2
    /\ "start" \in DOMAIN sent[1]
    /\ sent[1].start = START_DELIMITER
    /\ last.result = <<>>
    /\ decoder.state = "WaitingForPreamble"

\* ---------------------------------------------------------------------
\* When the buffer is cut (src/src/protocol.rs, feed_data)
\* ---------------------------------------------------------------------

\* The beginnings of a frame that leave the decoder in WaitingForStart, in
\* ReadingLength and in ReadingMessage.
TruncationStarts ==
    {[extra |-> 0, start |-> <<>>, rest |-> <<>>],
     [extra |-> 1, start |-> START_DELIMITER, rest |-> <<>>],
     [extra |-> 0, start |-> START_DELIMITER, rest |-> <<8>>],
     [extra |-> 0, start |-> START_DELIMITER, rest |-> <<8, 0, 123, 125>>]}

\* Runs of garbage arrive, each once the one before has been fed, and once
\* the beginning of a frame, before them, between them, or straight behind
\* one; what is on the stream is fed in chunks.
NextTruncation ==
    \/ \E garbage \in BackpressureGarbage :
           wire = <<>> /\ Len(damage) < MaxGarbageRuns /\ Garbage(garbage)
    \/ \E s \in TruncationStarts :
           sent = <<>> /\ last.op # "feed_data" /\ SendRun(s.extra, s.start, s.rest)
    \/ \E n \in BackpressureChunks :
           wire # <<>> /\ Feed(IF n < Len(wire) THEN n ELSE Len(wire))

SpecTruncation == InitStream /\ [][NextTruncation]_vars

\* The number of 0xAA bytes at the end of s, up to n of them.
TailRun(s, n) ==
    LET most == IF Len(s) < n THEN Len(s) ELSE n
    IN  CHOOSE k \in 0..most :
            /\ \A i \in 1..k : s[Len(s) - i + 1] = 170
            /\ k = most \/ s[Len(s) - k] # 170

\* What feed_data may do to the decoder `before` that the decode loop has
\* left, `after` being the decoder it leaves.
CutWhenSearching(before, left, after) ==
    /\ after # before =>
           /\ before.state = "WaitingForPreamble"
           /\ find_preamble(left) = -1
           /\ after.buffer = LastBytes(left, keep_size)
           /\ TailRun(after.buffer, 7) = TailRun(left, 7)
    /\ before.state # "WaitingForPreamble" => after = before
    /\ after.state = "WaitingForStart" => Len(after.buffer) < 10
    /\ after.state = "ReadingLength" => Len(after.buffer) < 2
    /\ after.state = "ReadingMessage" => Len(after.buffer) < 2 * MAX_MESSAGE_LENGTH

CutWhenSearchingAfter(loop, after) == CutWhenSearching(loop.dec, loop.dec.buffer, after)

\* C27: the cut of the buffer in feed_data only fires when the decoder is
\* in WaitingForPreamble and the buffer holds no complete preamble: it
\* never takes bytes of a frame whose preamble has been recognised, and the
\* beginning of a preamble (up to 7 bytes 0xAA) at the end of the buffer
\* survives it. In WaitingForStart, ReadingLength and ReadingMessage the
\* buffer left by feed_data is shorter than 10, 2 and 2048 bytes.
C27_CutOnlyWhenSearching ==
    [][ last'.op = "feed_data" =>
          CutWhenSearchingAfter(
              DecodeLoop([decoder EXCEPT !.buffer = @ \o SubSeq(wire, 1, last'.size)], <<>>),
              decoder')
      ]_vars

\* The buffer was cut with seven 0xAA bytes at its end, and they are still
\* there.
C27_Witness ==
    /\ last.op = "feed_data"
    /\ decoder.state = "WaitingForPreamble"
    /\ Len(decoder.buffer) = keep_size
    /\ TailRun(decoder.buffer, 7) = 7

\* More than 10000 bytes were buffered and fed in a call that ended with the
\* beginning of a frame: nothing was cut, the decoder reads the body.
C27_FrameBehindGarbage ==
    /\ last.op = "feed_data"
    /\ Len(damage) = 2
    /\ decoder.state = "ReadingMessage"
    /\ decoder.buffer = <<123, 125>>

\* ---------------------------------------------------------------------
\* The listen loop (src/src/app.rs, listen_for_messages)
\* ---------------------------------------------------------------------

\* The most samples the input stream captures while the loop runs, and the
\* most it hands to the callback at once.
MaxCaptured == 4
MaxBlock == 2

\* The callback lets the buffer grow to 10 seconds of audio and then keeps
\* the last 5.
BufferedSamplesLimit == 441000
BufferedSamplesDrained == 220500

\* Samples are told apart by the order of their capture: the samples
\* numbered from + 1 to from + n.
Captured(from, n) == [i \in 1..n |-> from + i]

\* recorded_samples and the loop are set up, the input stream plays.
StartListening ==
    /\ listen.pc = "none"
    /\ listen' = [listen EXCEPT !.pc = "loop"]
    /\ UNCHANGED <<encoder, base, calls, decoder, wire, sent, delivered, damage, last>>

\* The callback of the input stream, on the audio thread: under the lock it
\* appends the block captured and, past 10 seconds, drains the oldest 5.
InputCallback(n) ==
    /\ listen.pc \notin {"none", "stopped"}
    /\ listen.captured + n <= MaxCaptured
    /\ LET samples == listen.recorded_samples \o Captured(listen.captured, n)
       IN  listen' = [listen EXCEPT
                         !.captured = @ + n,
                         !.recorded_samples =
                             IF Len(samples) > BufferedSamplesLimit
                             THEN Drain(samples, BufferedSamplesDrained)
                             ELSE samples]
    /\ UNCHANGED <<encoder, base, calls, decoder, wire, sent, delivered, damage, last>>

\* The loop, 100 ms after it last processed: it clones the buffer under the
\* lock and lets the lock go.
TakeSnapshot ==
    /\ listen.pc = "loop"
    /\ listen' = [listen EXCEPT !.samples = listen.recorded_samples, !.pc = "detect"]
    /\ UNCHANGED <<encoder, base, calls, decoder, wire, sent, delivered, damage, last>>

\* Nothing to process: the snapshot is empty, or detect_signal_start finds
\* no signal in it. The buffer is left as it is.
NoSignal ==
    /\ listen.pc = "detect"
    /\ listen' = [listen EXCEPT !.pc = "loop"]
    /\ UNCHANGED <<encoder, base, calls, decoder, wire, sent, delivered, damage, last>>

\* detect_signal_start finds the signal at start_idx of the snapshot, which
\* depends on the values of the samples: any index of the snapshot.
SignalDetected(start_idx) ==
    /\ listen.pc = "detect"
    /\ listen.samples # <<>>
    /\ start_idx \in 0..(Len(listen.samples) - 1)
    /\ listen' = [listen EXCEPT !.start_idx = start_idx, !.pc = "process"]
    /\ UNCHANGED <<encoder, base, calls, decoder, wire, sent, delivered, damage, last>>

\* process_received_samples(&samples[start_idx..]): the samples go to the
\* demodulator; the lock is not held meanwhile.
ProcessSamples ==
    /\ listen.pc = "process"
    /\ listen' = [listen EXCEPT
                     !.handed = @ \cup { listen.samples[i] :
                                           i \in (listen.start_idx + 1)..Len(listen.samples) },
                     !.pc = "clear"]
    /\ UNCHANGED <<encoder, base, calls, decoder, wire, sent, delivered, damage, last>>

\* recorded_samples.lock().unwrap().clear()
ClearProcessed ==
    /\ listen.pc = "clear"
    /\ listen' = [listen EXCEPT !.recorded_samples = <<>>, !.pc = "loop"]
    /\ UNCHANGED <<encoder, base, calls, decoder, wire, sent, delivered, damage, last>>

\* The timeout is reached or Ctrl+C is pressed: the loop breaks and the
\* input stream is dropped.
StopListening ==
    /\ listen.pc = "loop"
    /\ listen' = [listen EXCEPT !.pc = "stopped"]
    /\ UNCHANGED <<encoder, base, calls, decoder, wire, sent, delivered, damage, last>>

NextListen ==
    \/ StartListening
    \/ \E n \in 1..MaxBlock : InputCallback(n)
    \/ TakeSnapshot
    \/ NoSignal
    \/ \E start_idx \in 0..(MaxCaptured - 1) : SignalDetected(start_idx)
    \/ ProcessSamples
    \/ ClearProcessed
    \/ StopListening

SpecListen == InitStream /\ [][NextListen]_vars

\* The samples of a sequence.
SamplesOf(samples) == { samples[i] : i \in 1..Len(samples) }

\* C28: the clear of the buffer removes only samples that were in the
\* snapshot just processed: no sample the callback appended between the
\* snapshot and the clear is discarded without having been handed to the
\* demodulator.
C28_ClearRemovesOnlySnapshot ==
    [][ (listen.pc = "clear" /\ listen'.pc = "loop") =>
            SamplesOf(listen.recorded_samples) \subseteq SamplesOf(listen.samples) ]_vars

\* What the clear does: it empties the buffer, whatever has been appended
\* since the snapshot; every sample handed to the demodulator was in a
\* snapshot, from the index of the signal on.
C28_ClearEmptiesBuffer ==
    [][ (listen.pc = "clear" /\ listen'.pc = "loop") =>
            /\ listen'.recorded_samples = <<>>
            /\ listen'.handed = listen.handed
            /\ \A i \in (listen.start_idx + 1)..Len(listen.samples) :
                   listen.samples[i] \in listen.handed ]_vars

\* A sample captured after the snapshot was taken is gone from the buffer
\* and was never handed to the demodulator.
C28_SampleLost ==
    /\ listen.pc = "loop"
    /\ listen.captured = 2
    /\ listen.samples = <<1>>
    /\ listen.recorded_samples = <<>>
    /\ listen.handed = {1}

\* ---------------------------------------------------------------------
\* encode_text calls that fail among calls that succeed
\* ---------------------------------------------------------------------

\* The most encode_text calls made on the encoder.
MaxAttempts == 4

\* A short text, the longest text accepted and the shortest one refused.
AttemptTexts == {<<72>>, LongestText, TooLongText}

\* encoder.encode_text(text) at the clock reading now, whatever comes of it:
\* a frame goes onto the stream, an error goes nowhere. sent keeps every
\* call with its result.
Attempt(text, now) ==
    LET r == encode_text(encoder, text, now)
    IN  /\ encoder' = r.enc
        /\ calls' = IF r.result.ok THEN calls + 1 ELSE calls
        /\ wire' = IF r.result.ok THEN wire \o r.result.val ELSE wire
        /\ sent' = Append(sent, [text |-> text, result |-> r.result,
                                 size |-> IF r.result.ok THEN Len(r.result.val) ELSE 0])
        /\ last' = [op |-> "encode_text", text |-> text, now |-> now,
                    result |-> r.result]
        /\ UNCHANGED <<base, decoder, delivered, damage, listen>>

NextAttempts ==
    \E text \in AttemptTexts :
        Len(sent) < MaxAttempts /\ Attempt(text, NextReading)

SpecAttempts == InitStream /\ [][NextAttempts]_vars

\* The frames of the first n calls, one behind the other.
RECURSIVE FramesOfAttempts(_)
FramesOfAttempts(n) ==
    IF n = 0 THEN <<>>
    ELSE FramesOfAttempts(n - 1)
         \o (IF sent[n].result.ok THEN sent[n].result.val ELSE <<>>)

\* How many of the first n calls produced a frame.
FramesBefore(n) == Cardinality({i \in 1..n : sent[i].result.ok})

\* C29: an encode_text call fails exactly when the text has more than 1024
\* bytes; it then produces no frame and leaves the sequence counter as it
\* was, so that the next call that succeeds uses the number the failed call
\* would have used: the frames produced carry the sequence numbers 0, 1,
\* 2, ... without a gap, however many calls failed between them.
C29_FailedCallKeepsNumber ==
    /\ \A i \in 1..Len(sent) :
           IF Len(sent[i].text) > MAX_MESSAGE_LENGTH
           THEN ~sent[i].result.ok
           ELSE /\ sent[i].result.ok
                /\ FrameMessage(sent[i].result.val).header.sequence_number
                       = Low32(Plus(base, FramesBefore(i - 1)))
    /\ sent # <<>> =>
           /\ get_next_sequence_number(encoder)
                  = Low32(Plus(base, FramesBefore(Len(sent))))
           /\ wire = FramesOfAttempts(Len(sent))

\* A call succeeded, two failed, and the next one succeeded with the
\* sequence number 1.
C29_Witness ==
    /\ Len(sent) = 4
    /\ sent[1].result.ok /\ ~sent[2].result.ok /\ ~sent[3].result.ok
    /\ sent[4].result.ok
    /\ FrameMessage(sent[4].result.val).header.sequence_number = ToBytes(1, 4)
    /\ get_next_sequence_number(encoder) = ToBytes(2, 4)

\* ---------------------------------------------------------------------
\* feed_data step by step: the invocations of try_decode_message
\* ---------------------------------------------------------------------

\* What one invocation of try_decode_message comes to: it calls itself
\* again on the decoder it has changed, or it returns.
Again(d) == [dec |-> d, again |-> TRUE, result |-> None]
Returned(r) == [dec |-> r.dec, again |-> FALSE, result |-> r.result]

\* A faulty WaitingForStart arm, which keeps the byte when no start
\* delimiter follows the preamble: the same preamble is found again.
InvalidStartKeepingByte(d) ==
    Again([d EXCEPT !.state = "WaitingForPreamble"])

\* WaitingForStart, the two bytes after the preamble being no start
\* delimiter: invalid start, look for next preamble.
InvalidStart(d) ==
    Again([d EXCEPT !.buffer = Drain(d.buffer, 1),
                    !.state = "WaitingForPreamble"])

\* The frame of the Ack message.
AckFrame == encode_message(AckMessage).val

\* serde_json::from_slice and verify_checksum on the body of that frame,
\* worked out once.
AckBody == FrameBody(AckFrame)
AckDeserialized == DeserializeMessage(AckBody)
AckVerified == verify_checksum(AckDeserialized.val)

\* serde_json::from_slice::<Message>(&message_bytes)
from_slice(message_bytes) ==
    IF message_bytes = AckBody THEN AckDeserialized
    ELSE DeserializeMessage(message_bytes)

\* msg.verify_checksum().unwrap_or(false)
ChecksumVerified(msg) ==
    IF msg = AckDeserialized.val THEN AckVerified ELSE verify_checksum(msg)

\* One invocation of try_decode_message, up to its return or to the call of
\* itself that ends each arm.
Invocation(d) ==
    CASE d.state = "WaitingForPreamble" ->
           IF find_preamble(d.buffer) # -1
           THEN Again([d EXCEPT !.buffer = Drain(d.buffer, find_preamble(d.buffer)),
                                !.state = "WaitingForStart"])
           ELSE Returned(Decoded(d, None))
      [] d.state = "WaitingForStart" ->
           IF Len(d.buffer) >= Len(PREAMBLE) * 2 + Len(START_DELIMITER)
           THEN IF Slice(d.buffer, Len(PREAMBLE) * 2 + 1,
                         Len(PREAMBLE) * 2 + Len(START_DELIMITER)) = START_DELIMITER
                THEN Again([d EXCEPT
                               !.buffer = Drain(d.buffer, Len(PREAMBLE) * 2
                                                          + Len(START_DELIMITER)),
                               !.state = "ReadingLength"])
                ELSE InvalidStart(d)
           ELSE Returned(Decoded(d, None))
      [] d.state = "ReadingLength" ->
           IF Len(d.buffer) >= 2
           THEN IF d.buffer[1] * 256 + d.buffer[2] > MAX_MESSAGE_LENGTH * 2
                THEN Again([d EXCEPT
                               !.expected_length = d.buffer[1] * 256 + d.buffer[2],
                               !.buffer = Drain(d.buffer, 1),
                               !.state = "WaitingForPreamble"])
                ELSE Again([d EXCEPT
                               !.expected_length = d.buffer[1] * 256 + d.buffer[2],
                               !.buffer = Drain(d.buffer, 2),
                               !.state = "ReadingMessage"])
           ELSE Returned(Decoded(d, None))
      [] d.state = "ReadingMessage" ->
           IF Len(d.buffer) >= d.expected_length
           THEN Returned(AfterBody(d, Drain(d.buffer, d.expected_length),
                                   from_slice(Slice(d.buffer, 1, d.expected_length))))
           ELSE Returned(Decoded(d, None))
      [] d.state = "WaitingForEnd" ->
           IF Len(d.buffer) >= Len(END_DELIMITER)
           THEN IF Slice(d.buffer, 1, Len(END_DELIMITER)) = END_DELIMITER
                THEN Again([d EXCEPT !.buffer = Drain(d.buffer, Len(END_DELIMITER)),
                                     !.state = "WaitingForPreamble"])
                ELSE Again([d EXCEPT !.buffer = Drain(d.buffer, 1),
                                     !.state = "WaitingForPreamble"])
           ELSE Returned(Decoded(d, None))

\* The most feed_data calls made on the decoder.
MaxFeeds == 2

\* The chunks fed: a run of 0xAA bytes that no start delimiter follows, a
\* frame that announces the length 0, one that announces 65535, one whose
\* body is no message, a whole frame (the preamble at offset 0), a frame
\* behind other bytes, two frames, and the beginnings of a frame that leave
\* the decoder in WaitingForStart, ReadingLength and ReadingMessage.
StepChunks ==
    {Repeat(170, 12),
     Frame(<<>>, <<1, 2>>),
     PREAMBLE \o PREAMBLE \o START_DELIMITER \o <<255, 255>>,
     Frame(<<123, 125>>, END_DELIMITER),
     AckFrame,
     <<1, 170, 3>> \o AckFrame,
     AckFrame \o AckFrame,
     SubSeq(AckFrame, 1, 9),
     SubSeq(AckFrame, 1, 11),
     SubSeq(AckFrame, 1, 20)}

\* In a feed_data call: what self.try_decode_message() of the while loop is
\* invoked on next.
InFeedData == last.op = "try_decode_message"

\* decoder.feed_data(data) is called: the chunk goes behind the buffer and
\* the loop is entered.
CallFeedData(data) ==
    /\ ~InFeedData
    /\ Len(sent) < MaxFeeds
    /\ decoder' = [decoder EXCEPT !.buffer = decoder.buffer \o data]
    /\ sent' = Append(sent, [bytes |-> data, size |-> Len(data)])
    /\ last' = [op |-> "try_decode_message", at |-> decoder, messages |-> <<>>,
                entry |-> Len(decoder.buffer) + Len(data), invocations |-> 0]
    /\ UNCHANGED <<encoderVars, wire, delivered, damage, listen>>

\* An invocation of try_decode_message that ends in a call of itself.
Reenter ==
    /\ InFeedData
    /\ Invocation(decoder).again
    /\ decoder' = Invocation(decoder).dec
    /\ last' = [last EXCEPT !.invocations = @ + 1]
    /\ UNCHANGED <<encoderVars, wire, sent, delivered, damage, listen>>

\* An invocation that returns Some: the body of the while loop keeps the
\* message, drops it, or resets the state, and the loop goes round.
LoopPass ==
    /\ InFeedData
    /\ ~Invocation(decoder).again
    /\ Invocation(decoder).result.some
    /\ decoder' = [Invocation(decoder).dec EXCEPT
                      !.state = IF Invocation(decoder).result.res.ok
                                THEN @ ELSE "WaitingForPreamble"]
    /\ last' = [last EXCEPT
                   !.messages =
                       IF Invocation(decoder).result.res.ok
                          /\ ChecksumVerified(Invocation(decoder).result.res.val)
                       THEN Append(@, Invocation(decoder).result.res.val)
                       ELSE @,
                   !.entry = Len(Invocation(decoder).dec.buffer),
                   !.invocations = 0]
    /\ UNCHANGED <<encoderVars, wire, sent, delivered, damage, listen>>

\* An invocation that returns None: the loop is over, the buffer is kept
\* reasonable and feed_data returns the messages.
ReturnMessages ==
    /\ InFeedData
    /\ ~Invocation(decoder).again
    /\ ~Invocation(decoder).result.some
    /\ decoder' = KeepBufferReasonable([dec |-> Invocation(decoder).dec,
                                        messages |-> last.messages]).dec
    /\ delivered' = delivered \o last.messages
    /\ last' = [op |-> "feed_data", fresh |-> last.at = ProtocolDecoder_new,
                size |-> sent[Len(sent)].size, result |-> last.messages]
    /\ UNCHANGED <<encoderVars, wire, sent, damage, listen>>

NextInvocations ==
    \/ \E data \in StepChunks : CallFeedData(data)
    \/ Reenter
    \/ LoopPass
    \/ ReturnMessages

\* feed_data is straight-line code on one thread: a call that has begun
\* goes on until it returns.
SpecInvocations ==
    /\ InitStream
    /\ [][NextInvocations]_vars
    /\ WF_vars(Reenter \/ LoopPass \/ ReturnMessages)

\* What bounds the invocations left: two for every buffered byte, and the
\* arms that may pass without taking a byte count once.
InvocationsBound(d) ==
    2 * Len(d.buffer)
    + (CASE d.state = "ReadingMessage" -> 2
         [] d.state = "WaitingForPreamble" -> 1
         [] OTHER -> 0)

\* C30: feed_data terminates for every chunk and every decoder state. Every
\* pass of the decode loop that does not stop leaves the buffer at least one
\* byte shorter than the pass found it; within a pass every invocation of
\* try_decode_message that goes on brings down a bound that the buffered
\* bytes set; an invocation that lacks bytes returns None instead of
\* waiting; so every call returns, with what feed_data is defined to return.
C30_FeedDataTerminates ==
    /\ [][ /\ (InFeedData /\ InFeedData' /\ last'.invocations = 0) =>
                  Len(decoder'.buffer) < last.entry
           /\ (InFeedData /\ InFeedData') =>
                  InvocationsBound(decoder') < InvocationsBound(decoder)
           /\ (InFeedData /\ ~InFeedData') =>
                  /\ decoder' = feed_data(last.at, sent[Len(sent)].bytes).dec
                  /\ last'.result = feed_data(last.at, sent[Len(sent)].bytes).messages
         ]_vars
    /\ InFeedData ~> ~InFeedData

\* A frame that announces the length 0 was fed behind the beginning of a
\* frame: the loop went round once, on a body of no bytes, and the call
\* returned no message, leaving the two bytes behind the length.
C30_Witness ==
    /\ last.op = "feed_data" /\ last.result = <<>>
    /\ Len(sent) = 2
    /\ sent[2].bytes = Frame(<<>>, <<1, 2>>)
    /\ decoder.state = "WaitingForPreamble"
    /\ decoder.buffer = <<1, 2>>

\* In a run of 0xAA bytes the preamble was found at offset 0 four times in
\* one pass, a byte being dropped in between.
C30_RunOfPreambleBytes ==
    /\ InFeedData
    /\ sent[Len(sent)].bytes = Repeat(170, 12)
    /\ last.invocations = 7
    /\ decoder.state = "WaitingForStart"

====
